---- MODULE Spec2Model ----
(***************************************************************************)
(* Model of the shoping_crawler price-comparison scraper:                  *)
(*   danawa.py        DanawaParser (facets, listing pass, category merge,  *)
(*                    excel export) and its CLI main                       *)
(*   guidecom.py      GuidecomParser (listing pass, category merge,        *)
(*                    excel export) and its CLI main                       *)
(*   streamlit_app.py the two web handlers that merge, deduplicate and     *)
(*                    rank the category lists                              *)
(*   app.py           the form-based front end of DanawaParser             *)
(* Texts whose characters matter (price texts, facet codes, option         *)
(* filters) are sequences of one-character strings, so that the regular    *)
(* expression, str.split, str.isdigit and int() are computed, not assumed. *)
(* A character is a one-character string; a Hangul syllable is written as  *)
(* its romanised token ("won" is the currency suffix the parsers append).  *)
(***************************************************************************)
EXTENDS Integers, Sequences, FiniteSets, TLC

VARIABLES
    flow,        \* Spec: which entry point runs (CLI main or web handler)
    selected,    \* Spec: the facet codes the user selected, in facet order
    pc,          \* Spec: position of the run
    passes,      \* Spec: what each search_products call returned, in call order
                 \*       (for a direct export: the category lists handed in)
    final,       \* Spec: the rows exported / the list stored for display
    doc,         \* SpecFacets: the transport outcome and the page fetched
    options,     \* SpecFacets: what get_search_options returned
    call,        \* SpecSearch: the arguments and environment of one call
    reply,       \* SpecSearch: what search_products did
    price_str,   \* SpecPrice: the price text handed to the parser
    parser,      \* SpecPrice: which of the three copies of the parser ran
    parsed,      \* SpecPrice: what the parser returned or raised
    item_node,   \* SpecItem: the listing item node handed to _parse_product_item
    parsed_item, \* SpecItem: what _parse_product_item returned
    site,        \* SpecCategories: whose search_all_categories runs
    cat_pc,      \* SpecCategories: position of the run
    fetches,     \* SpecCategories: the requests issued so far, in order
    listings,    \* SpecCategories: what each search_products call returned
    categories,  \* SpecCategories: the category lists returned, in dict order
    frontend,    \* SpecSession: which front end runs (danawa.main, streamlit_app, app)
    stage,       \* SpecSession: position of the front end
    session_state, \* SpecSession: the values the front end holds between steps
    events       \* SpecSession: the fetches, merges and rankings done so far, in order

run_vars == <<flow, selected, pc, passes, final>>
facet_vars == <<doc, options>>
search_vars == <<call, reply>>
price_vars == <<price_str, parser, parsed>>
item_vars == <<item_node, parsed_item>>
cat_vars == <<site, cat_pc, fetches, listings, categories>>
session_vars == <<frontend, stage, session_state, events>>
vars == <<run_vars, facet_vars, search_vars, price_vars, item_vars, cat_vars, session_vars>>

(***************************************************************************)
(* Python helpers                                                          *)
(***************************************************************************)
Digits == {"0", "1", "2", "3", "4", "5", "6", "7", "8", "9"}

DigitValue(c) ==
    CASE c = "0" -> 0 [] c = "1" -> 1 [] c = "2" -> 2 [] c = "3" -> 3
      [] c = "4" -> 4 [] c = "5" -> 5 [] c = "6" -> 6 [] c = "7" -> 7
      [] c = "8" -> 8 [] c = "9" -> 9

\* A call either returns a value or raises.
Return(v) == [raised |-> FALSE, value |-> v]
ValueError == [raised |-> TRUE, value |-> 0]

RECURSIVE DecimalValue(_)
DecimalValue(d) ==
    IF d = <<>> THEN 0
    ELSE 10 * DecimalValue(SubSeq(d, 1, Len(d) - 1)) + DigitValue(d[Len(d)])

\* int(s) for a text of decimal digits: int('') raises ValueError.
py_int(s) ==
    IF s = <<>> \/ \E i \in 1..Len(s) : s[i] \notin Digits
    THEN ValueError
    ELSE Return(DecimalValue(s))

\* s.replace(',', '')
replace_comma(s) == SelectSeq(s, LAMBDA c : c # ",")

\* re.findall(r'[0-9,]+', s): the maximal runs of digits and commas, in order.
RECURSIVE ScanRuns(_, _, _, _)
ScanRuns(s, i, cur, acc) ==
    IF i > Len(s)
    THEN (IF cur = <<>> THEN acc ELSE Append(acc, cur))
    ELSE IF s[i] \in Digits \cup {","}
         THEN ScanRuns(s, i + 1, Append(cur, s[i]), acc)
         ELSE ScanRuns(s, i + 1, <<>>, IF cur = <<>> THEN acc ELSE Append(acc, cur))

re_findall_price(s) == ScanRuns(s, 1, <<>>, <<>>)

(***************************************************************************)
(* The price parser used as the ranking key (three copies in the source)   *)
(***************************************************************************)
\* The key of a product whose price text holds no digit-or-comma run.
NoPriceKey == 999999999

\* A copy that concatenates every run instead of taking the first.
RECURSIVE ConcatRuns(_)
ConcatRuns(runs) ==
    IF runs = <<>> THEN <<>> ELSE Head(runs) \o ConcatRuns(Tail(runs))

extract_price_all_runs(price_str_) ==
    LET numbers == re_findall_price(price_str_)
    IN  IF numbers # <<>>
        THEN py_int(replace_comma(ConcatRuns(numbers)))
        ELSE Return(NoPriceKey)

\* DanawaParser.save_to_excel.extract_price_number
extract_price_number(price_str_) ==
    LET numbers == re_findall_price(price_str_)
    IN  IF numbers # <<>>
        THEN py_int(replace_comma(numbers[1]))
        ELSE Return(NoPriceKey)

\* streamlit_app.py extract_price (both handlers define the same function)
extract_price(p_str) ==
    LET nums == re_findall_price(p_str)
    IN  IF nums # <<>> THEN py_int(replace_comma(nums[1])) ELSE Return(NoPriceKey)

\* GuidecomParser._prepare_excel_data.extract_price_number
guidecom_extract_price_number(price_str_) ==
    LET numbers == re_findall_price(price_str_)
    IN  IF numbers # <<>>
        THEN py_int(replace_comma(numbers[1]))
        ELSE Return(NoPriceKey)

(***************************************************************************)
(* Texts, optional values, Python list and dict helpers                    *)
(***************************************************************************)
None == <<>>
Some(x) == <<x>>

\* The white-space characters the texts of the model hold
Whitespace == {" ", "\n"}

\* s.strip()
RECURSIVE lstrip(_)
lstrip(s) == IF s # <<>> /\ Head(s) \in Whitespace THEN lstrip(Tail(s)) ELSE s

RECURSIVE rstrip(_)
rstrip(s) ==
    IF s # <<>> /\ s[Len(s)] \in Whitespace THEN rstrip(SubSeq(s, 1, Len(s) - 1)) ELSE s

strip(s) == lstrip(rstrip(s))

\* ' '.join(s.split()): white-space runs collapsed, none at the ends
RECURSIVE CollapseSpaces(_, _)
CollapseSpaces(s, acc) ==
    IF s = <<>> THEN acc
    ELSE IF Head(s) \in Whitespace
         THEN CollapseSpaces(Tail(s),
                  IF acc = <<>> \/ acc[Len(acc)] = " " THEN acc ELSE Append(acc, " "))
         ELSE CollapseSpaces(Tail(s), Append(acc, Head(s)))

join_split(s) == rstrip(CollapseSpaces(s, <<>>))

\* seq[:n], also for n <= 0
py_slice_to(seq, n) ==
    IF n >= 0
    THEN SubSeq(seq, 1, IF n < Len(seq) THEN n ELSE Len(seq))
    ELSE SubSeq(seq, 1, IF Len(seq) + n > 0 THEN Len(seq) + n ELSE 0)

\* d[k] = v on a dict kept as a function
dict_set(d, k, v) == [x \in DOMAIN d \cup {k} |-> IF x = k THEN v ELSE d[x]]

\* s.split(sep) for a one-character separator
RECURSIVE SplitLoop(_, _, _, _)
SplitLoop(s, sep, cur, acc) ==
    IF s = <<>> THEN Append(acc, cur)
    ELSE IF Head(s) = sep
         THEN SplitLoop(Tail(s), sep, <<>>, Append(acc, cur))
         ELSE SplitLoop(Tail(s), sep, Append(cur, Head(s)), acc)

py_split(s, sep) == SplitLoop(s, sep, <<>>, <<>>)

\* s.isdigit()
isdigit(s) == s # <<>> /\ \A i \in 1..Len(s) : s[i] \in Digits

\* s.lower() on the letters of the ASCII alphabet
UpperCase ==
    <<"A", "B", "C", "D", "E", "F", "G", "H", "I", "J", "K", "L", "M",
      "N", "O", "P", "Q", "R", "S", "T", "U", "V", "W", "X", "Y", "Z">>
LowerCase ==
    <<"a", "b", "c", "d", "e", "f", "g", "h", "i", "j", "k", "l", "m",
      "n", "o", "p", "q", "r", "s", "t", "u", "v", "w", "x", "y", "z">>

lower_char(c) ==
    IF \E i \in 1..Len(UpperCase) : UpperCase[i] = c
    THEN LowerCase[CHOOSE i \in 1..Len(UpperCase) : UpperCase[i] = c]
    ELSE c

py_lower(s) == [i \in 1..Len(s) |-> lower_char(s[i])]

\* sep.join(parts)
RECURSIVE py_join(_, _)
py_join(sep, parts) ==
    IF parts = <<>> THEN <<>>
    ELSE IF Len(parts) = 1 THEN parts[1]
         ELSE parts[1] \o sep \o py_join(sep, Tail(parts))

\* s.replace(old, new) for a one-character old
RECURSIVE py_replace(_, _, _)
py_replace(s, old, new) ==
    IF s = <<>> THEN <<>>
    ELSE (IF Head(s) = old THEN new ELSE <<Head(s)>>) \o py_replace(Tail(s), old, new)

RECURSIVE Flatten(_)
Flatten(lists) == IF lists = <<>> THEN <<>> ELSE Head(lists) \o Flatten(Tail(lists))

Range(seq) == {seq[i] : i \in 1..Len(seq)}

\* list.sort(key=...): stable, ascending in the key. keys[i] is the key of
\* items[i]; an element goes behind every element whose key is not larger.
RECURSIVE SortPairs(_)
SortPairs(pairs) ==
    IF pairs = <<>> THEN <<>>
    ELSE LET n == Len(pairs)
             front == SortPairs(SubSeq(pairs, 1, n - 1))
             x == pairs[n]
             k == Cardinality({i \in 1..Len(front) : front[i][1] <= x[1]})
         IN  SubSeq(front, 1, k) \o <<x>> \o SubSeq(front, k + 1, Len(front))

py_sort(items, keys) ==
    LET sorted == SortPairs([i \in 1..Len(items) |-> <<keys[i], items[i]>>])
    IN  [i \in 1..Len(items) |-> sorted[i][2]]

(***************************************************************************)
(* Price texts                                                             *)
(***************************************************************************)
MaxTextLen == 3

PriceAlphabet == {"1", "2", ",", "won", " "}

RECURSIVE TextsUpTo(_, _)
TextsUpTo(alphabet, n) ==
    IF n = 0 THEN {<<>>}
    ELSE LET shorter == TextsUpTo(alphabet, n - 1)
         IN  shorter \cup {Append(t, c) : t \in shorter, c \in alphabet}

\* The placeholder price text of an item without a price (danawa.py:242,
\* "price inquiry"), one token per Hangul syllable.
PriceInquiry == <<"ga", "gyeok", " ", "mun", "ui">>
\* "1,234won (~1,200)"
TwoFragments ==
    <<"1", ",", "2", "3", "4", "won", " ", "(", "~", "1", ",", "2", "0", "0", ")">>
\* "1,939,210"
Grouped == <<"1", ",", "9", "3", "9", ",", "2", "1", "0">>
\* "1,000,000,000won"
Billion == <<"1", ",", "0", "0", "0", ",", "0", "0", "0", ",", "0", "0", "0", "won">>
\* "100won"
Hundred == <<"1", "0", "0", "won">>

PriceTexts ==
    TextsUpTo(PriceAlphabet, MaxTextLen)
        \cup {PriceInquiry, TwoFragments, Grouped, Billion, Hundred}

(***************************************************************************)
(* Facet discovery: DanawaParser.get_search_options                        *)
(***************************************************************************)
MaxOptions == 20

Facet(name, code) == [category |-> "manufacturer", name |-> name, code |-> code]

\* danawa.py:90-103, used when the page was fetched and nothing matched
default_manufacturers ==
    <<Facet(<<"Samsung Electronics">>, <<"1", "8", "5">>),
      Facet(<<"LG Electronics">>, <<"2", "1">>),
      Facet(<<"ASUS">>, <<"1", "7">>),
      Facet(<<"MSI">>, <<"1", "4", "3">>),
      Facet(<<"GIGABYTE">>, <<"3", "9", "9">>),
      Facet(<<"EVGA">>, <<"3", "1", "4", "8">>),
      Facet(<<"Zotac">>, <<"3", "1", "4", "2">>),
      Facet(<<"Galaxy">>, <<"3", "1", "5", "4">>),
      Facet(<<"Intel">>, <<"1", "6">>),
      Facet(<<"AMD">>, <<"2", "3", "8">>),
      Facet(<<"Western Digital">>, <<"2", "2">>),
      Facet(<<"Seagate">>, <<"2", "4">>)>>

\* danawa.py:111-121, returned from the except clause
error_manufacturers ==
    <<Facet(<<"Samsung Electronics">>, <<"1", "8", "5">>),
      Facet(<<"LG Electronics">>, <<"2", "1">>),
      Facet(<<"ASUS">>, <<"1", "7">>),
      Facet(<<"MSI">>, <<"1", "4", "3">>),
      Facet(<<"GIGABYTE">>, <<"3", "9", "9">>),
      Facet(<<"Western Digital">>, <<"2", "2">>),
      Facet(<<"Seagate">>, <<"2", "4">>),
      Facet(<<"Intel">>, <<"1", "6">>),
      Facet(<<"AMD">>, <<"2", "3", "8">>)>>

\* A facet page, by what the selectors of get_search_options find:
\*   maker_tab  None without div#makerBrandTab, else the data-optionname of
\*              each button.button__option in it (None for a missing attribute)
\*   option_tab None without div#makerOptionTab, else the buttons
\*              [name, code] of it, each attribute None when missing
\*   class_box  None when no element of the page has a class holding "maker"
\*              or "brand", else the buttons [name, code] of the first such
\*              element; no selector of get_search_options looks at it
FacetPage(maker_tab, option_tab) == [maker_tab |-> maker_tab, option_tab |-> option_tab, class_box |-> None]
WithClassBox(page, class_box) == [page EXCEPT !.class_box = class_box]
Button(name, code) == [name |-> name, code |-> code]

\* danawa.py:58-63
BrandNames(buttons) ==
    {buttons[i][1] : i \in {j \in 1..Len(buttons) : buttons[j] # None /\ buttons[j][1] # <<>>}}

\* danawa.py:71-84: the option buttons that become facets, in page order
RECURSIVE MatchOptions(_, _)
MatchOptions(option_buttons, brand_names) ==
    IF option_buttons = <<>> THEN <<>>
    ELSE LET opt_name == Head(option_buttons).name
             opt_code == Head(option_buttons).code
             rest == MatchOptions(Tail(option_buttons), brand_names)
         IN  IF /\ opt_name # None /\ opt_name[1] \in brand_names
                /\ opt_code # None /\ opt_code[1] # <<>>
                /\ isdigit(opt_code[1])
             THEN <<Facet(opt_name[1], opt_code[1])>> \o rest
             ELSE rest

\* danawa.py:50-86
FoundOptions(page) ==
    IF page.maker_tab # None /\ page.option_tab # None
    THEN MatchOptions(page.option_tab[1], BrandNames(page.maker_tab[1]))
    ELSE <<>>

\* A variant without the hard-coded fallback lists.
get_search_options_live_only(outcome, page) ==
    IF outcome # "ok" THEN <<>> ELSE py_slice_to(FoundOptions(page), MaxOptions)

\* DanawaParser.get_search_options
get_search_options(outcome, page) ==
    IF outcome # "ok"
    THEN error_manufacturers
    ELSE IF FoundOptions(page) = <<>>
         THEN default_manufacturers
         ELSE py_slice_to(FoundOptions(page), MaxOptions)

(***************************************************************************)
(* Listing items and products                                              *)
(***************************************************************************)
\* The placeholders of danawa.py:215,242,363 and guidecom.py:83,86,89
NoInfo == <<"jeong", "bo", " ", "eop", "eum">>
NoSpecInfo == <<"sa", "yang", " ", "jeong", "bo", " ", "eop", "eum">>
Won == <<"won">>
BR == <<"<br>">>

\* Product(name, price, specifications), danawa.py:14-18
Product(name, price, specifications) == [name |-> name, price |-> price, specifications |-> specifications]

\* What the specification lookups of _get_specifications_from_item find for
\* an item node:
\*   own_box     the <span>s of the first div.spec-box__inner inside the item,
\*               or None
\*   parent_box  the <span>s of the first div.spec-box__inner under the item's
\*               parent, or None
\*   id          the id attribute of the item, or None
\*   wider_box   the <span>s of the first div.spec-box__inner under the
\*               parent's parent, or None
\*   class_texts the text nodes of the elements found for the classes spec,
\*               specification, details, info, feature, in that order
\*   titled      the title attributes of the a, button and div elements of
\*               the item that carry one, in document order
SpecNodes(own_box, parent_box, id, wider_box, class_texts, titled) ==
    [own_box |-> own_box, parent_box |-> parent_box, id |-> id,
     wider_box |-> wider_box, class_texts |-> class_texts, titled |-> titled]

\* A <span> of a specification block: whether its class list holds 'slash',
\* and its text
Span(slash, text) == [slash |-> slash, text |-> text]

\* An item without any specification markup; its only titled element is
\* the link the name cascade reads
NoSpecNodes(link_title) ==
    SpecNodes(None, None, None, None, <<>>, IF link_title = None THEN <<>> ELSE <<link_title[1]>>)

\* A matched Danawa item node, by what the field selectors find in it:
\*   title         children of span.goods-list__title (texts and BR), or None
\*   link_title    title attribute of the first a[title], or None
\*   generic_name  text of the first title/product-title/goods-title/item-title
\*                 element with a non-blank text, or None
\*   price_num     text of em.num (else em.number) in div.goods-list__price
\*   generic_price texts of the price/cost/money/won elements, in class order
\*   specs         what the specification lookups find (SpecNodes)
DanawaItem(title, link_title, generic_name, price_num, generic_price) ==
    [title |-> title, link_title |-> link_title, generic_name |-> generic_name,
     price_num |-> price_num, generic_price |-> generic_price,
     specs |-> NoSpecNodes(link_title)]

\* The same item with specification markup
WithSpecs(item, spec_nodes) == [item EXCEPT !.specs = spec_nodes]

\* name_elem.get_text(strip=True) after every <br> was replaced by ' ':
\* each text node is stripped and the empty ones are left out.
RECURSIVE get_text_strip(_)
get_text_strip(nodes) ==
    IF nodes = <<>> THEN <<>>
    ELSE LET node == IF Head(nodes) = BR THEN <<" ">> ELSE Head(nodes)
         IN  strip(node) \o get_text_strip(Tail(nodes))

\* The name cascade of DanawaParser._parse_product_item
DanawaItemName(item) ==
    IF item.title # None
    THEN join_split(get_text_strip(item.title[1]))
    ELSE IF item.link_title # None
         THEN strip(item.link_title[1])
         ELSE IF item.generic_name # None
              THEN strip(item.generic_name[1])
              ELSE NoInfo

\* Method 2 of the price cascade: the first generic element that settles it
RECURSIVE GenericPrice(_)
GenericPrice(texts) ==
    IF texts = <<>> THEN PriceInquiry
    ELSE LET price_text == strip(Head(texts))
         IN  IF price_text = <<>> THEN GenericPrice(Tail(texts))
             ELSE IF price_text # <<"-">> /\ "won" \notin Range(price_text)
                  THEN price_text \o Won
                  ELSE IF "won" \in Range(price_text)
                       THEN price_text
                       ELSE GenericPrice(Tail(texts))

\* The price cascade of DanawaParser._parse_product_item
DanawaItemPrice(item) ==
    LET first ==
            IF item.price_num # None
               /\ strip(item.price_num[1]) # <<>>
               /\ strip(item.price_num[1]) # <<"-">>
            THEN strip(item.price_num[1]) \o Won
            ELSE PriceInquiry
    IN  IF first = PriceInquiry THEN GenericPrice(item.generic_price) ELSE first

\* danawa.py:322, 337: the texts that count as a specification
Separators == {<<"/">>, <<"|">>, <<"-">>}
KeepFragment(text) == text # <<>> /\ Len(text) > 1 /\ text \notin Separators

\* danawa.py:355, 361 and 346
MaxSpecs == 15
MaxJoined == 10
MinTitleLen == 5

\* danawa.py:296-313: the specification block used for the item
find_spec_inner(spec_nodes) ==
    IF spec_nodes.own_box # None THEN spec_nodes.own_box
    ELSE IF spec_nodes.parent_box # None THEN spec_nodes.parent_box
         ELSE IF spec_nodes.id # None /\ spec_nodes.id[1] # <<>>
              THEN spec_nodes.wider_box
              ELSE None

\* danawa.py:316-323
RECURSIVE SpanSpecs(_)
SpanSpecs(spec_spans) ==
    IF spec_spans = <<>> THEN <<>>
    ELSE LET span == Head(spec_spans)
             text == strip(span.text)
         IN  (IF ~span.slash /\ KeepFragment(text) THEN <<text>> ELSE <<>>)
                 \o SpanSpecs(Tail(spec_spans))

\* danawa.py:334-338
RECURSIVE TextSpecs(_)
TextSpecs(text_elements) ==
    IF text_elements = <<>> THEN <<>>
    ELSE LET clean_text == strip(Head(text_elements))
         IN  (IF KeepFragment(clean_text) THEN <<clean_text>> ELSE <<>>)
                 \o TextSpecs(Tail(text_elements))

\* danawa.py:328-340: the first class element that yields a specification
RECURSIVE ClassSpecs(_)
ClassSpecs(class_texts) ==
    IF class_texts = <<>> THEN <<>>
    ELSE IF TextSpecs(Head(class_texts)) # <<>>
         THEN TextSpecs(Head(class_texts))
         ELSE ClassSpecs(Tail(class_texts))

\* danawa.py:343-348: the first title attribute that is long enough
RECURSIVE TitleSpecs(_)
TitleSpecs(titled) ==
    IF titled = <<>> THEN <<>>
    ELSE LET title_text == strip(Head(titled))
         IN  IF title_text # <<>> /\ Len(title_text) > MinTitleLen
             THEN <<title_text>>
             ELSE TitleSpecs(Tail(titled))

\* danawa.py:353-358
RECURSIVE UniqueSpecs(_, _)
UniqueSpecs(fragments, seen) ==
    IF fragments = <<>> THEN <<>>
    ELSE LET spec == Head(fragments)
         IN  IF py_lower(spec) \notin seen /\ Len(strip(spec)) > 1
             THEN <<strip(spec)>> \o UniqueSpecs(Tail(fragments), seen \cup {py_lower(spec)})
             ELSE UniqueSpecs(Tail(fragments), seen)

SpecSeparator == <<" ", "/", " ">>

\* A variant that keeps every fragment that is neither empty nor a separator.
get_specifications_keep_all(item) ==
    LET spec_inner == find_spec_inner(item.specs)
        kept == IF spec_inner = None THEN <<>>
                ELSE LET texts == [i \in 1..Len(spec_inner[1]) |-> strip(spec_inner[1][i].text)]
                         slash == [i \in 1..Len(spec_inner[1]) |-> spec_inner[1][i].slash]
                         keep == {i \in 1..Len(texts) :
                                     ~slash[i] /\ texts[i] # <<>> /\ texts[i] \notin Separators}
                     IN  Flatten([i \in 1..Len(texts) |->
                                     IF i \in keep THEN <<texts[i]>> ELSE <<>>])
    IN  IF kept # <<>> THEN py_join(SpecSeparator, kept) ELSE NoSpecInfo

\* DanawaParser._get_specifications_from_item
get_specifications_from_item(item) ==
    LET spec_inner == find_spec_inner(item.specs)
        from_box == IF spec_inner # None THEN SpanSpecs(spec_inner[1]) ELSE <<>>
        from_class == IF from_box = <<>> THEN ClassSpecs(item.specs.class_texts)
                      ELSE from_box
        found == IF from_class = <<>> THEN TitleSpecs(item.specs.titled) ELSE from_class
        unique_specs == UniqueSpecs(py_slice_to(found, MaxSpecs), {})
    IN  IF unique_specs # <<>>
        THEN py_join(SpecSeparator, py_slice_to(unique_specs, MaxJoined))
        ELSE NoSpecInfo

\* DanawaParser._parse_product_item: None for an item without a usable name
parse_product_item(item) ==
    LET name == DanawaItemName(item)
    IN  IF name = <<>> \/ strip(name) = NoInfo \/ Len(strip(name)) < 2
        THEN None
        ELSE Some(Product(strip(name), DanawaItemPrice(item),
                          get_specifications_from_item(item)))

\* A Guidecom <li>: the text of '.goods-list-name strong', of
\* '.goods-list-price .cost' and of '.goods-list-spec', each None when the
\* element is missing
GuidecomItem(name_text, cost_text, spec_text) == [name_text |-> name_text, cost_text |-> cost_text, spec_text |-> spec_text]

\* GuidecomParser._parse_product_item: always a product
guidecom_parse_product_item(item) ==
    Product(IF item.name_text # None THEN strip(item.name_text[1]) ELSE NoInfo,
            IF item.cost_text # None /\ strip(item.cost_text[1]) # <<>>
            THEN strip(item.cost_text[1]) \o Won
            ELSE PriceInquiry,
            IF item.spec_text # None
            THEN py_replace(strip(item.spec_text[1]), "\n", SpecSeparator)
            ELSE NoSpecInfo)

(***************************************************************************)
(* One listing pass: search_products                                       *)
(***************************************************************************)
FetchOutcomes == {"ok", "connection_error", "timeout", "http_error"}

KeywordKey == <<"keyword">>
SortKey == <<"sort">>
MakerKey == <<"m", "a", "k", "e", "r">>
QKey == <<"q">>

\* f"maker={code}" (streamlit_app.py:112, danawa.py:581)
MakerFilter(code) == MakerKey \o <<"=">> \o code

\* Lines 136-153: the request parameters, or the ValueError of the unpacking
\* key, value = option_filter.split('=')
SearchParams(keyword, sort_type, option_filter) ==
    LET params == (KeywordKey :> keyword) @@ (SortKey :> sort_type)
    IN  IF option_filter = None \/ option_filter[1] = <<>>
        THEN Return(params)
        ELSE LET parts == py_split(option_filter[1], "=")
             IN  IF Len(parts) # 2
                 THEN [raised |-> TRUE, value |-> params]
                 ELSE LET key == parts[1]
                          value == parts[2]
                          with_maker ==
                              IF key = MakerKey
                              THEN dict_set(params, MakerKey, value)
                              ELSE params
                      IN  Return(dict_set(with_maker, key, value))

\* Lines 168-183: the item selectors, in the order they are tried
Selectors ==
    <<"li.goods-list__item", "li.product-item", "li.goods-item", "li.list-item",
      "li.item", "div.goods-list__item", "div.product-item", "div.goods-item">>

\* A variant that knows the primary selector only.
find_product_items_primary_only(page) == page[1]

\* Lines 168-183 on a page given as the nodes each selector matches:
\* the matches of the first selector that matches anything
find_product_items(page) ==
    IF \E i \in 1..Len(Selectors) : page[i] # <<>>
    THEN page[CHOOSE i \in 1..Len(Selectors) :
                 page[i] # <<>> /\ \A j \in 1..(i - 1) : page[j] = <<>>]
    ELSE <<>>

\* A variant of the loop that never stops at the limit.
RECURSIVE ParseEvery(_, _, _)
ParseEvery(items, limit, products) ==
    IF items = <<>> THEN products
    ELSE LET product == parse_product_item(Head(items))
         IN  ParseEvery(Tail(items), limit,
                        IF product # None THEN Append(products, product[1]) ELSE products)

\* Lines 187-205: the loop over product_items[:limit * 2]
RECURSIVE ParseLoop(_, _, _)
ParseLoop(items, limit, products) ==
    IF items = <<>> THEN products
    ELSE LET product == parse_product_item(Head(items))
         IN  IF product # None
             THEN (IF Len(products) + 1 >= limit
                   THEN Append(products, product[1])
                   ELSE ParseLoop(Tail(items), limit, Append(products, product[1])))
             ELSE ParseLoop(Tail(items), limit, products)

\* A variant whose fetch stands outside the try block: a transport failure
\* reaches the caller.
search_products_unguarded(keyword, sort_type, limit, option_filter, outcome, product_items) ==
    LET built == SearchParams(keyword, sort_type, option_filter)
    IN  [raised |-> built.raised \/ outcome # "ok", requested |-> ~built.raised,
         params |-> built.value,
         products |->
             IF built.raised \/ outcome # "ok" THEN <<>>
             ELSE ParseLoop(py_slice_to(product_items, limit * 2), limit, <<>>)]

\* DanawaParser.search_products. outcome is what the transport does if the
\* request is issued, product_items the nodes the item selectors match. The
\* result says whether the call raised, whether a request went out, with
\* which parameters, and the list returned.
search_products(keyword, sort_type, limit, option_filter, outcome, product_items) ==
    LET built == SearchParams(keyword, sort_type, option_filter)
    IN  IF built.raised
        THEN [raised |-> TRUE, requested |-> FALSE, params |-> built.value,
              products |-> <<>>]
        ELSE [raised |-> FALSE, requested |-> TRUE, params |-> built.value,
              products |->
                  IF outcome # "ok" THEN <<>>
                  ELSE ParseLoop(py_slice_to(product_items, limit * 2), limit, <<>>)]

\* GuidecomParser.search_products. list_items is None when the page has no
\* ul.goods-list, else the <li> nodes of that list.
guidecom_search_products(keyword, sort_type, limit, outcome, list_items) ==
    [raised |-> FALSE, requested |-> TRUE,
     params |-> (QKey :> keyword) @@ (SortKey :> sort_type),
     products |->
         IF outcome # "ok" \/ list_items = None THEN <<>>
         ELSE LET items == py_slice_to(list_items[1], limit)
              IN  [i \in 1..Len(items) |-> guidecom_parse_product_item(items[i])]]

(***************************************************************************)
(* Category merges: search_all_categories                                  *)
(***************************************************************************)
PerOrderLimit == 5
MinCount == 3
MaxCount == 5

Names(products) == {products[i].name : i \in 1..Len(products)}

\* danawa.py:380-389
RECURSIVE KeepMinLoop(_, _, _, _)
KeepMinLoop(products, min_count, seen_names, unique) ==
    IF products = <<>> THEN unique
    ELSE LET product == Head(products)
             take == product.name \notin seen_names \/ Len(unique) < min_count
             seen2 == IF take THEN seen_names \cup {product.name} ELSE seen_names
             unique2 == IF take THEN Append(unique, product) ELSE unique
         IN  IF Len(unique2) >= MaxCount THEN unique2
             ELSE KeepMinLoop(Tail(products), min_count, seen2, unique2)

\* A variant without the floor: a repeated name is never admitted.
remove_duplicates_no_floor(products, min_count) ==
    KeepMinLoop(products, 0, {}, <<>>)

remove_duplicates_keep_min(products, min_count) ==
    KeepMinLoop(products, min_count, {}, <<>>)

\* danawa.py:396-401 and guidecom.py:120-125: the second list without the
\* names the first list kept
RECURSIVE ExcludeLoop(_, _, _)
ExcludeLoop(products, popular_names, kept) ==
    IF products = <<>> THEN kept
    ELSE LET product == Head(products)
             kept2 == IF product.name \notin popular_names
                      THEN Append(kept, product) ELSE kept
         IN  IF Len(kept2) >= MaxCount THEN kept2
             ELSE ExcludeLoop(Tail(products), popular_names, kept2)

\* danawa.py:404-407
RECURSIVE BackfillLoop(_, _, _)
BackfillLoop(products, popular_names, review_unique) ==
    IF products = <<>> THEN review_unique
    ELSE BackfillLoop(Tail(products), popular_names,
            IF Head(products).name \in popular_names /\ Len(review_unique) < MaxCount
            THEN Append(review_unique, Head(products))
            ELSE review_unique)

\* A variant that backfills whatever the second list holds.
search_all_categories_always_backfill(popular_products, review_products) ==
    LET popular_unique == remove_duplicates_keep_min(popular_products, MinCount)
        popular_names == Names(popular_unique)
        review_unique == ExcludeLoop(review_products, popular_names, <<>>)
    IN  <<popular_unique, BackfillLoop(review_products, popular_names, review_unique)>>

\* DanawaParser.search_all_categories on the results of its two passes;
\* the value is results.values() in insertion order
search_all_categories(popular_products, review_products) ==
    LET popular_unique == remove_duplicates_keep_min(popular_products, MinCount)
        popular_names == Names(popular_unique)
        review_unique == ExcludeLoop(review_products, popular_names, <<>>)
    IN  <<popular_unique,
          IF Len(review_unique) < MinCount
          THEN BackfillLoop(review_products, popular_names, review_unique)
          ELSE review_unique>>

\* guidecom.py:106-115
RECURSIVE RemoveDuplicatesLoop(_, _, _, _)
RemoveDuplicatesLoop(products, max_count, seen_names, unique) ==
    IF products = <<>> THEN unique
    ELSE LET product == Head(products)
             take == product.name \notin seen_names
             unique2 == IF take THEN Append(unique, product) ELSE unique
         IN  IF Len(unique2) >= max_count THEN unique2
             ELSE RemoveDuplicatesLoop(Tail(products), max_count,
                                       seen_names \cup {product.name}, unique2)

remove_duplicates(products, max_count) ==
    RemoveDuplicatesLoop(products, max_count, {}, <<>>)

\* GuidecomParser.search_all_categories on the results of its two passes
guidecom_search_all_categories(popular_products, new_products) ==
    LET popular_unique == remove_duplicates(popular_products, MaxCount)
    IN  <<popular_unique, ExcludeLoop(new_products, Names(popular_unique), <<>>)>>

(***************************************************************************)
(* Merge, deduplicate, rank                                                *)
(***************************************************************************)
\* streamlit_app.py:118-119 and 197-198:
\* [p for p in all_products if p.name not in seen_names and not seen_names.add(p.name)]
RECURSIVE UniqueLoop(_, _)
UniqueLoop(all_products, seen_names) ==
    IF all_products = <<>> THEN <<>>
    ELSE IF Head(all_products).name \notin seen_names
         THEN <<Head(all_products)>>
                  \o UniqueLoop(Tail(all_products), seen_names \cup {Head(all_products).name})
         ELSE UniqueLoop(Tail(all_products), seen_names)

unique_products(all_products) == UniqueLoop(all_products, {})

\* The outcome of a sort whose key function may raise: the list is left
\* alone by the caller's handler when a key raises.
SortedBy(products, keys) ==
    IF \E i \in 1..Len(keys) : keys[i].raised
    THEN [raised |-> TRUE, value |-> <<>>]
    ELSE Return(py_sort(products, [i \in 1..Len(keys) |-> keys[i].value]))

\* streamlit_app.py:118-123 and 197-202: dedup, then sort by price
streamlit_merge(all_products) ==
    LET unique == unique_products(all_products)
    IN  SortedBy(unique, [i \in 1..Len(unique) |-> extract_price(unique[i].price)])

\* DanawaParser.save_to_excel 432-456: the rows written, in order
save_to_excel_rows(results) ==
    LET all_products == Flatten(results)
    IN  SortedBy(all_products,
                 [i \in 1..Len(all_products) |->
                     extract_price_number(all_products[i].price)])

\* GuidecomParser._prepare_excel_data: sort by price, then drop the names
\* already seen
prepare_excel_data(results) ==
    LET all_products == Flatten(results)
        sorted == SortedBy(all_products,
                     [i \in 1..Len(all_products) |->
                         guidecom_extract_price_number(all_products[i].price)])
    IN  IF sorted.raised THEN sorted ELSE Return(UniqueLoop(sorted.value, {}))

(***************************************************************************)
(* Spec: one aggregation run, from the first listing pass to the ranked    *)
(* list. The entry points are danawa.main, guidecom.main, the two "search  *)
(* products" handlers of streamlit_app.py, and the public export           *)
(* GuidecomParser.save_to_excel_web, which takes the category lists of its *)
(* caller.                                                                 *)
(***************************************************************************)
\* Items served over one run, all pages together
MaxItems == 3

Keyword == <<"s", "s", "d">>
NameA == <<"A", "1">>
NameB == <<"B", "1">>

Code702 == <<"7", "0", "2">>
Code955 == <<"9", "5", "5">>

\* The price element texts of the run's pages: "100", none, "1,000,000,000"
RunPriceTexts ==
    {None, Some(<<"1", "0", "0">>),
     Some(<<"1", ",", "0", "0", "0", ",", "0", "0", "0", ",", "0", "0", "0">>)}

DanawaRunItems ==
    {DanawaItem(Some(<<n>>), None, None, t, <<>>) : n \in {NameA, NameB}, t \in RunPriceTexts}

GuidecomRunItems ==
    {GuidecomItem(Some(n), t, None) : n \in {NameA, NameB}, t \in RunPriceTexts}

\* The products a caller of the export can hold: parsed Guidecom items
GuidecomRunProducts == {guidecom_parse_product_item(i) : i \in GuidecomRunItems}

RECURSIVE ListsUpTo(_, _)
ListsUpTo(S, n) ==
    IF n <= 0 THEN {<<>>}
    ELSE LET shorter == ListsUpTo(S, n - 1)
         IN  shorter \cup {Append(l, x) : l \in shorter, x \in S}

Flows == {"danawa_cli", "danawa_web", "guidecom_cli", "guidecom_web", "guidecom_export"}

Selections(f) ==
    CASE f = "danawa_cli" -> {<<>>, <<Code702>>, <<Code955>>}
      [] f = "danawa_web" -> {<<>>, <<Code702>>, <<Code955>>, <<Code702, Code955>>}
      [] OTHER -> {<<>>}

\* search_all_categories runs once per selected code, once when none is
NumCalls == IF selected = <<>> THEN 1 ELSE Len(selected)

Served == Len(Flatten(passes))

NoDoc == [outcome |-> "none"]
IdleFacets == doc = NoDoc /\ options = <<>>
NoCall == [site |-> "none"]
NoReply == [raised |-> FALSE, requested |-> FALSE]
IdleSearch == call = NoCall /\ reply = NoReply
NotParsed == [raised |-> FALSE, value |-> -1]
IdlePrice == price_str = <<>> /\ parser = "idle" /\ parsed = NotParsed
NoNode == [kind |-> "none"]
NotEmitted == [done |-> FALSE, value |-> <<>>]
IdleItem == item_node = NoNode /\ parsed_item = NotEmitted
IdleCategories ==
    /\ site = "none" /\ cat_pc = "idle"
    /\ fetches = <<>> /\ listings = <<>> /\ categories = <<>>
NoForm == [form |-> "none", selected_codes |-> <<>>]
\* What a front end holds before its first step: danawa.py:545-556,
\* streamlit_app.py:55-62, app.py:10-19
EmptySession ==
    [keyword |-> <<>>, options |-> <<>>, show |-> FALSE, products |-> <<>>,
     error |-> "none", last |-> NoForm]
IdleSession ==
    /\ frontend = "none" /\ stage = "idle"
    /\ session_state = EmptySession /\ events = <<>>

Init ==
    /\ flow \in Flows
    /\ selected \in Selections(flow)
    /\ pc = "listing"
    /\ passes = <<>>
    /\ final = <<>>
    /\ IdleFacets
    /\ IdleSearch
    /\ IdlePrice
    /\ IdleItem
    /\ IdleCategories
    /\ IdleSession

\* One search_products call of DanawaParser.search_all_categories
\* (danawa.py:376-377): saveDESC first, then opinionDESC, limit 5.
DanawaListingPass ==
    /\ flow \in {"danawa_cli", "danawa_web"}
    /\ pc = "listing"
    /\ Len(passes) < 2 * NumCalls
    /\ \E outcome \in FetchOutcomes :
       \E items \in (IF outcome = "ok"
                     THEN ListsUpTo(DanawaRunItems, MaxItems - Served)
                     ELSE {<<>>}) :
          LET nth == (Len(passes) \div 2) + 1
              sort_type == IF Len(passes) % 2 = 0 THEN <<"saveDESC">> ELSE <<"opinionDESC">>
              option_filter ==
                  IF selected = <<>> THEN None ELSE Some(MakerFilter(selected[nth]))
              r == search_products(Keyword, sort_type, PerOrderLimit, option_filter,
                                   outcome, items)
          IN  /\ passes' = Append(passes, r.products)
              /\ pc' = IF r.raised THEN "error" ELSE pc
    /\ UNCHANGED <<flow, selected, final, facet_vars, search_vars, price_vars, item_vars, cat_vars, session_vars>>

\* One search_products call of GuidecomParser.search_all_categories
\* (guidecom.py:103-104): hit first, then new, limit 5.
GuidecomListingPass ==
    /\ flow \in {"guidecom_cli", "guidecom_web"}
    /\ pc = "listing"
    /\ Len(passes) < 2
    /\ \E outcome \in FetchOutcomes :
       \E list_items \in (IF outcome = "ok"
                          THEN {None} \cup
                               {Some(l) : l \in ListsUpTo(GuidecomRunItems, MaxItems - Served)}
                          ELSE {None}) :
          LET sort_type == IF Len(passes) = 0 THEN <<"hit">> ELSE <<"new">>
              r == guidecom_search_products(Keyword, sort_type, PerOrderLimit,
                                            outcome, list_items)
          IN  passes' = Append(passes, r.products)
    /\ UNCHANGED <<flow, selected, pc, final, facet_vars, search_vars, price_vars, item_vars, cat_vars, session_vars>>

\* The category lists of the n-th search_all_categories call, flattened as
\* [p for prods in results.values() for p in prods]
RECURSIVE DanawaAllProducts(_)
DanawaAllProducts(n) ==
    IF n = 0 THEN <<>>
    ELSE DanawaAllProducts(n - 1)
             \o Flatten(search_all_categories(passes[2 * n - 1], passes[2 * n]))

Finish(outcome) ==
    /\ pc' = IF outcome.raised THEN "error" ELSE "done"
    /\ final' = IF outcome.raised THEN final ELSE outcome.value
    /\ UNCHANGED <<flow, selected, passes, facet_vars, search_vars, price_vars, item_vars, cat_vars, session_vars>>

\* danawa.main 595-601: merge the categories and write the rows
DanawaMainSave ==
    /\ flow = "danawa_cli"
    /\ pc = "listing"
    /\ Len(passes) = 2
    /\ Finish(save_to_excel_rows(search_all_categories(passes[1], passes[2])))

\* streamlit_app.py:105-128: the Danawa "search products" handler
DanawaWebSearch ==
    /\ flow = "danawa_web"
    /\ pc = "listing"
    /\ Len(passes) = 2 * NumCalls
    /\ Finish(streamlit_merge(DanawaAllProducts(NumCalls)))

\* guidecom.main 308-316: merge the categories and write the rows
GuidecomMainSave ==
    /\ flow = "guidecom_cli"
    /\ pc = "listing"
    /\ Len(passes) = 2
    /\ Finish(prepare_excel_data(guidecom_search_all_categories(passes[1], passes[2])))

\* streamlit_app.py:192-205: the Guidecom "search products" handler
GuidecomWebSearch ==
    /\ flow = "guidecom_web"
    /\ pc = "listing"
    /\ Len(passes) = 2
    /\ Finish(streamlit_merge(Flatten(guidecom_search_all_categories(passes[1], passes[2]))))

\* GuidecomParser.save_to_excel_web (guidecom.py:255-295) called with the
\* lists of the two sort orders: it raises when there is no row to write.
GuidecomSaveToExcelWeb ==
    /\ flow = "guidecom_export"
    /\ pc = "listing"
    /\ passes = <<>>
    /\ \E hit \in ListsUpTo(GuidecomRunProducts, MaxItems) :
       \E new \in ListsUpTo(GuidecomRunProducts, MaxItems - Len(hit)) :
          LET df == prepare_excel_data(<<hit, new>>)
          IN  /\ passes' = <<hit, new>>
              /\ pc' = IF df.raised \/ df.value = <<>> THEN "error" ELSE "done"
              /\ final' = IF df.raised THEN final ELSE df.value
    /\ UNCHANGED <<flow, selected, facet_vars, search_vars, price_vars, item_vars, cat_vars, session_vars>>

Next ==
    \/ DanawaListingPass
    \/ GuidecomListingPass
    \/ DanawaMainSave
    \/ DanawaWebSearch
    \/ GuidecomMainSave
    \/ GuidecomWebSearch
    \/ GuidecomSaveToExcelWeb

Spec == Init /\ [][Next]_vars

IdleRun ==
    /\ flow = "none" /\ selected = <<>> /\ pc = "idle"
    /\ passes = <<>> /\ final = <<>>

(***************************************************************************)
(* SpecPrice: the parser applied to one price text                         *)
(***************************************************************************)
InitPrice ==
    /\ price_str \in PriceTexts
    /\ parser = "none"
    /\ parsed = NotParsed
    /\ IdleRun
    /\ IdleFacets
    /\ IdleSearch
    /\ IdleItem
    /\ IdleCategories
    /\ IdleSession

DanawaExtractPrice ==
    /\ parser = "none"
    /\ parser' = "danawa"
    /\ parsed' = extract_price_number(price_str)
    /\ UNCHANGED <<price_str, run_vars, facet_vars, search_vars, item_vars, cat_vars, session_vars>>

StreamlitExtractPrice ==
    /\ parser = "none"
    /\ parser' = "streamlit"
    /\ parsed' = extract_price(price_str)
    /\ UNCHANGED <<price_str, run_vars, facet_vars, search_vars, item_vars, cat_vars, session_vars>>

GuidecomExtractPrice ==
    /\ parser = "none"
    /\ parser' = "guidecom"
    /\ parsed' = guidecom_extract_price_number(price_str)
    /\ UNCHANGED <<price_str, run_vars, facet_vars, search_vars, item_vars, cat_vars, session_vars>>

NextPrice == DanawaExtractPrice \/ StreamlitExtractPrice \/ GuidecomExtractPrice

SpecPrice == InitPrice /\ [][NextPrice]_vars

(***************************************************************************)
(* SpecFacets: one get_search_options call on one page                     *)
(***************************************************************************)
\* Buttons per tab
MaxButtons == 2

Samsung == <<"Samsung">>
WD == <<"WD">>
\* A facet code that is not a number, as newer pages expose
CodeToken == <<"s", "1">>

BrandButtons == {None, Some(Samsung), Some(WD)}

OptionButtons ==
    {Button(Some(Samsung), Some(Code702)), Button(Some(Samsung), Some(CodeToken)),
     Button(Some(WD), Some(Code955)), Button(Some(WD), None)}

\* Buttons of an element classed "maker"/"brand" outside the two tabs
ClassBoxButtons == {Button(Some(Samsung), Some(Code702)), Button(Some(WD), None)}

ClassBoxes == {None} \cup {Some(l) : l \in ListsUpTo(ClassBoxButtons, MaxButtons)}

FacetPages ==
    {WithClassBox(FacetPage(m, o), c) :
        m \in {None} \cup {Some(l) : l \in ListsUpTo(BrandButtons, MaxButtons)},
        o \in {None} \cup {Some(l) : l \in ListsUpTo(OptionButtons, MaxButtons)},
        c \in ClassBoxes}

NoPage == FacetPage(None, None)

InitFacets ==
    /\ IdleFacets
    /\ IdleRun
    /\ IdleSearch
    /\ IdlePrice
    /\ IdleItem
    /\ IdleCategories
    /\ IdleSession

GetSearchOptions ==
    /\ doc.outcome = "none"
    /\ \E outcome \in FetchOutcomes :
       \E page \in (IF outcome = "ok" THEN FacetPages ELSE {NoPage}) :
          /\ doc' = [outcome |-> outcome, page |-> page]
          /\ options' = get_search_options(outcome, page)
    /\ UNCHANGED <<run_vars, search_vars, price_vars, item_vars, cat_vars, session_vars>>

NextFacets == GetSearchOptions

SpecFacets == InitFacets /\ [][NextFacets]_vars

(***************************************************************************)
(* SpecSearch: one search_products call                                    *)
(***************************************************************************)
\* Item nodes per listing page
MaxPage == 3

Limits == {-1, 0, 1, 3}
Keywords == {Keyword, <<>>}

\* A code that holds the separator of the option filter
CodeWithEquals == <<"a", "=", "1">>
FilterCodes == {Code702, CodeToken, CodeWithEquals}

OptionFilters ==
    {None, Some(MakerKey), Some(<<"b", "r", "a", "n", "d", "=", "7">>)}
        \cup {Some(MakerFilter(c)) : c \in FilterCodes}

DanawaSearchItems ==
    {DanawaItem(Some(<<NameA>>), None, None, Some(<<"1", "0", "0">>), <<>>),
     DanawaItem(Some(<<NameB>>), None, None, None, <<>>),
     DanawaItem(None, None, None, None, <<>>)}

\* A node only a looser selector matches
FallbackNode == DanawaItem(Some(<<NameB>>), None, None, Some(<<"1", "0", "0">>), <<>>)
JunkNode == DanawaItem(None, None, None, None, <<>>)

\* A page on which selector i matches the nodes l, selector j the nodes m
PageWith(i, l, j, m) ==
    [k \in 1..Len(Selectors) |-> IF k = i THEN l ELSE IF k = j THEN m ELSE <<>>]

\* Pages whose primary selector matches, with or without a node for a looser
\* selector, and pages on which only fallback selectors match
DanawaSearchPages ==
    {PageWith(1, l, j, m) :
        l \in ListsUpTo(DanawaSearchItems, MaxPage) \ {<<>>},
        j \in {2, 6}, m \in {<<>>, <<FallbackNode>>}}
    \cup
    {PageWith(a, e, b, l) :
        a \in {2, 5}, e \in {<<>>, <<JunkNode>>},
        b \in {6, 8}, l \in ListsUpTo(DanawaSearchItems, MaxPage)}

NoMatchPage == PageWith(1, <<>>, 2, <<>>)

GuidecomSearchItems ==
    {GuidecomItem(Some(NameA), Some(<<"1", "0", "0">>), None),
     GuidecomItem(Some(NameB), None, None),
     GuidecomItem(Some(<<>>), Some(<<"1", "0", "0">>), None),
     GuidecomItem(None, None, None)}

InitSearch ==
    /\ IdleSearch
    /\ IdleRun
    /\ IdleFacets
    /\ IdlePrice
    /\ IdleItem
    /\ IdleCategories
    /\ IdleSession

DanawaSearchProducts ==
    /\ call.site = "none"
    /\ \E keyword \in Keywords, limit \in Limits, option_filter \in OptionFilters :
       \E outcome \in FetchOutcomes :
       \E page \in (IF outcome = "ok" THEN DanawaSearchPages ELSE {NoMatchPage}) :
          /\ call' = [site |-> "danawa", keyword |-> keyword, limit |-> limit,
                      option_filter |-> option_filter, outcome |-> outcome, page |-> page]
          /\ reply' = search_products(keyword, <<"saveDESC">>, limit, option_filter,
                                      outcome, find_product_items(page))
    /\ UNCHANGED <<run_vars, facet_vars, price_vars, item_vars, cat_vars, session_vars>>

GuidecomSearchProducts ==
    /\ call.site = "none"
    /\ \E keyword \in Keywords, limit \in Limits, outcome \in FetchOutcomes :
       \E list_items \in (IF outcome = "ok"
                          THEN {None} \cup
                               {Some(l) : l \in ListsUpTo(GuidecomSearchItems, MaxPage)}
                          ELSE {None}) :
          /\ call' = [site |-> "guidecom", keyword |-> keyword, limit |-> limit,
                      option_filter |-> None, outcome |-> outcome, page |-> list_items]
          /\ reply' = guidecom_search_products(keyword, <<"hit">>, limit, outcome, list_items)
    /\ UNCHANGED <<run_vars, facet_vars, price_vars, item_vars, cat_vars, session_vars>>

NextSearch == DanawaSearchProducts \/ GuidecomSearchProducts

SpecSearch == InitSearch /\ [][NextSearch]_vars

(***************************************************************************)
(* SpecItem: _parse_product_item applied to one listing item node          *)
(***************************************************************************)
\* <span>s per specification block
MaxSpans == 3

M2 == <<"M", ".", "2">>
NVMe == <<"N", "V", "M", "e">>
OneChar == <<"X">>
PaddedM2 == <<" ", "M", ".", "2", " ">>
\* "SSD 1TB", long enough for the title fallback of the specifications
LongTitle == <<"S", "S", "D", " ", "1", "T", "B">>

SpecSpans ==
    {Span(FALSE, M2), Span(FALSE, NVMe), Span(FALSE, py_lower(NVMe)),
     Span(FALSE, OneChar), Span(TRUE, <<"/">>), Span(FALSE, <<"|">>),
     Span(FALSE, <<>>), Span(FALSE, PaddedM2)}

\* Sixteen fragments "fa".."fe", then "fa".."fe" twice more, then "fp"
LongRepeats ==
    [i \in 1..16 |-> Span(FALSE, <<"f", LowerCase[IF i = 16 THEN 16 ELSE ((i - 1) % 5) + 1]>>)]
\* Eleven different fragments "fa".."fk"
LongDistinct == [i \in 1..11 |-> Span(FALSE, <<"f", LowerCase[i]>>)]

SpecBoxes == ListsUpTo(SpecSpans, MaxSpans) \cup {LongRepeats, LongDistinct}

Hundred100 == <<"1", "0", "0">>
BaseItem == DanawaItem(Some(<<NameA>>), None, None, Some(Hundred100), <<>>)

\* Items with a specification block of their own
BoxedItems ==
    {WithSpecs(BaseItem, SpecNodes(Some(b), None, None, None, <<>>, <<>>)) : b \in SpecBoxes}

\* Items without a block of their own: what the wider lookups and the
\* fallbacks find
LookupItems ==
    {WithSpecs(BaseItem, SpecNodes(None, pb, id, wb, ct, td)) :
        pb \in {None, Some(<<Span(FALSE, M2)>>)},
        id \in {None, Some(<<"p", "1">>)},
        wb \in {None, Some(<<Span(FALSE, NVMe)>>)},
        ct \in {<<>>, << <<OneChar, <<"/">> >>, <<PaddedM2, M2>> >>},
        td \in {<<>>, <<NameB, LongTitle>>}}

\* Items without specification markup: what the name and price cascades find
PlainItems ==
    {DanawaItem(t, lt, gn, pn, gp) :
        t \in {None, Some(<<NameA>>), Some(<< <<"A">>, BR, <<"1">> >>),
               Some(<< <<"A", " ", " ", "1">> >>), Some(<<>>)},
        lt \in {None, Some(NameB), Some(LongTitle)},
        gn \in {None, Some(NameB)},
        pn \in {None, Some(Hundred100), Some(<<"-">>)},
        gp \in {<<>>, <<Hundred>>, << <<"-">>, <<"2">> >>}}

DanawaNodes == BoxedItems \cup LookupItems \cup PlainItems

GuidecomNodes ==
    {GuidecomItem(n, c, sp) :
        n \in {None, Some(NameA), Some(<<>>), Some(<<" ">>)},
        c \in {None, Some(Hundred100), Some(<<>>)},
        sp \in {None, Some(<<>>), Some(M2 \o <<"\n">> \o NVMe)}}

InitItem ==
    /\ item_node \in {[kind |-> "danawa", item |-> i] : i \in DanawaNodes}
                        \cup {[kind |-> "guidecom", item |-> i] : i \in GuidecomNodes}
    /\ parsed_item = NotEmitted
    /\ IdleRun
    /\ IdleFacets
    /\ IdleSearch
    /\ IdlePrice
    /\ IdleCategories
    /\ IdleSession

DanawaParseProductItem ==
    /\ item_node.kind = "danawa"
    /\ ~parsed_item.done
    /\ parsed_item' = [done |-> TRUE, value |-> parse_product_item(item_node.item)]
    /\ UNCHANGED <<item_node, run_vars, facet_vars, search_vars, price_vars, cat_vars, session_vars>>

GuidecomParseProductItem ==
    /\ item_node.kind = "guidecom"
    /\ ~parsed_item.done
    /\ parsed_item' = [done |-> TRUE, value |-> Some(guidecom_parse_product_item(item_node.item))]
    /\ UNCHANGED <<item_node, run_vars, facet_vars, search_vars, price_vars, cat_vars, session_vars>>

NextItem == DanawaParseProductItem \/ GuidecomParseProductItem

SpecItem == InitItem /\ [][NextItem]_vars

(***************************************************************************)
(* SpecCategories: one search_all_categories call, fetch by fetch          *)
(***************************************************************************)
\* Item nodes per listing page of a category run
MaxListing == 4

Price200 == <<"2", "0", "0">>

\* The popularity page lists A and B; the second page can list A at another
\* price as well
DanawaPopularItems ==
    {DanawaItem(Some(<<n>>), None, None, Some(Hundred100), <<>>) : n \in {NameA, NameB}}
DanawaReviewItems ==
    DanawaPopularItems \cup {DanawaItem(Some(<<NameA>>), None, None, Some(Price200), <<>>)}

GuidecomPopularItems == {GuidecomItem(Some(n), Some(Hundred100), None) : n \in {NameA, NameB}}
GuidecomNewItems ==
    GuidecomPopularItems \cup {GuidecomItem(Some(NameA), Some(Price200), None)}

DanawaOrders == << <<"saveDESC">>, <<"opinionDESC">> >>
GuidecomOrders == << <<"hit">>, <<"new">> >>

InitCategories ==
    /\ site \in {"danawa", "guidecom"}
    /\ cat_pc = "fetching"
    /\ fetches = <<>>
    /\ listings = <<>>
    /\ categories = <<>>
    /\ IdleRun
    /\ IdleFacets
    /\ IdleSearch
    /\ IdlePrice
    /\ IdleItem
    /\ IdleSession

\* What one search_products call adds to the run: the request it issued,
\* the list it returned, or the exception that ends the run
AfterFetch(sort_type, outcome, r) ==
    /\ fetches' = IF r.requested
                  THEN Append(fetches, [sort |-> sort_type, outcome |-> outcome])
                  ELSE fetches
    /\ listings' = IF r.raised THEN listings ELSE Append(listings, r.products)
    /\ cat_pc' = IF r.raised THEN "error" ELSE cat_pc
    /\ UNCHANGED <<site, categories, run_vars, facet_vars, search_vars, price_vars, item_vars, session_vars>>

\* danawa.py:376-377: the next search_products call of the run
DanawaFetchOrder ==
    /\ site = "danawa"
    /\ cat_pc = "fetching"
    /\ Len(listings) < 2
    /\ \E outcome \in FetchOutcomes :
       \E items \in (IF outcome # "ok" THEN {<<>>}
                     ELSE IF Len(listings) = 0
                          THEN ListsUpTo(DanawaPopularItems, MaxListing)
                          ELSE ListsUpTo(DanawaReviewItems, MaxListing)) :
          LET sort_type == DanawaOrders[Len(listings) + 1]
          IN  AfterFetch(sort_type, outcome,
                  search_products(Keyword, sort_type, PerOrderLimit, None, outcome, items))

\* danawa.py:379-414: the category lists, returned
DanawaMergeCategories ==
    /\ site = "danawa"
    /\ cat_pc = "fetching"
    /\ Len(listings) = 2
    /\ categories' = search_all_categories(listings[1], listings[2])
    /\ cat_pc' = "done"
    /\ UNCHANGED <<site, fetches, listings, run_vars, facet_vars, search_vars, price_vars, item_vars, session_vars>>

\* guidecom.py:103-104: the next search_products call of the run
GuidecomFetchOrder ==
    /\ site = "guidecom"
    /\ cat_pc = "fetching"
    /\ Len(listings) < 2
    /\ \E outcome \in FetchOutcomes :
       \E list_items \in (IF outcome # "ok" THEN {None}
                          ELSE IF Len(listings) = 0
                               THEN {None} \cup {Some(l) : l \in ListsUpTo(GuidecomPopularItems, MaxListing)}
                               ELSE {None} \cup {Some(l) : l \in ListsUpTo(GuidecomNewItems, MaxListing)}) :
          LET sort_type == GuidecomOrders[Len(listings) + 1]
          IN  AfterFetch(sort_type, outcome,
                  guidecom_search_products(Keyword, sort_type, PerOrderLimit, outcome, list_items))

\* guidecom.py:106-132: the category lists, returned
GuidecomMergeCategories ==
    /\ site = "guidecom"
    /\ cat_pc = "fetching"
    /\ Len(listings) = 2
    /\ categories' = guidecom_search_all_categories(listings[1], listings[2])
    /\ cat_pc' = "done"
    /\ UNCHANGED <<site, fetches, listings, run_vars, facet_vars, search_vars, price_vars, item_vars, session_vars>>

NextCategories ==
    \/ DanawaFetchOrder
    \/ DanawaMergeCategories
    \/ GuidecomFetchOrder
    \/ GuidecomMergeCategories

SpecCategories == InitCategories /\ [][NextCategories]_vars

(***************************************************************************)
(* Properties of the aggregation run (Spec)                                *)
(***************************************************************************)
NoTwoWithSameName(products) ==
    \A i, j \in 1..Len(products) : i < j => products[i].name # products[j].name

\* The first product of a list that carries a given name
FirstNamed(products, name) ==
    products[CHOOSE i \in 1..Len(products) :
                /\ products[i].name = name
                /\ \A j \in 1..(i - 1) : products[j].name # name]

\* A price text "cannot be parsed" when it holds no digit at all
Unpriced(product) == Range(product.price) \cap Digits = {}

PriceOf(product) == extract_price(product.price).value

\* Names in ascending (code point) order
NamesAscending == <<NameA, NameB>>
NameRank(name) == CHOOSE i \in 1..Len(NamesAscending) : NamesAscending[i] = name

\* The paths that deduplicate by name themselves
DedupFlows == {"danawa_web", "guidecom_web", "guidecom_cli", "guidecom_export"}

\* C1: on every aggregation path (the two web merges, Guidecom's
\* _prepare_excel_data, and Danawa's save_to_excel fed by
\* search_all_categories) the final sequence holds no two products with the
\* same name.
C1_FinalNamesUnique == pc = "done" => NoTwoWithSameName(final)

\* C2: in the web merges and in Guidecom's _prepare_excel_data, a name that
\* occurs in more than one listing pass is kept exactly once, and the product
\* kept is the first one met in pass order (its price wins), not the
\* cheapest and not the last.
C2_FirstSeenWins ==
    (pc = "done" /\ flow \in DedupFlows) =>
        \A name \in {NameA, NameB} :
            Cardinality({k \in 1..Len(passes) : name \in Names(passes[k])}) > 1 =>
                /\ Cardinality({i \in 1..Len(final) : final[i].name = name}) = 1
                /\ FirstNamed(Flatten(passes), name) \in Range(final)

\* C3: the final sequence is in non-decreasing order of parsed price and
\* every product whose price cannot be parsed comes after every product with
\* a parsed price, whatever the magnitude of the parsed prices.
C3_UnpricedLast ==
    pc = "done" =>
        \A i, j \in 1..Len(final) :
            i < j =>
                /\ ~(Unpriced(final[i]) /\ ~Unpriced(final[j]))
                /\ (~Unpriced(final[i]) /\ ~Unpriced(final[j])
                        => PriceOf(final[i]) <= PriceOf(final[j]))

\* C4: two products of the final sequence with the same parsed price stand
\* in ascending order of name, whatever order the passes produced them in.
C4_NameBreaksTies ==
    pc = "done" =>
        \A i, j \in 1..Len(final) :
            (i < j /\ ~Unpriced(final[i]) /\ ~Unpriced(final[j])
                   /\ PriceOf(final[i]) = PriceOf(final[j]))
                => NameRank(final[i].name) <= NameRank(final[j].name)

(***************************************************************************)
(* Properties of facet discovery (SpecFacets)                              *)
(***************************************************************************)
FacetsDone == doc.outcome # "none"

\* The buttons of the option tab whose name is non-empty and listed in the
\* brand tab and whose code is non-empty
NamedAndCoded(page) ==
    IF page.maker_tab = None \/ page.option_tab = None THEN {}
    ELSE {b \in Range(page.option_tab[1]) :
             /\ b.name # None /\ b.name[1] # <<>>
             /\ Some(b.name[1]) \in Range(page.maker_tab[1])
             /\ b.code # None /\ b.code[1] # <<>>}

\* Live discovery found a facet in the page
LiveFacetFound == doc.outcome = "ok" /\ \E b \in NamedAndCoded(doc.page) : isdigit(b.code[1])

\* C5: the sequence returned by get_search_options holds no two facets with
\* the same (code, name) pair, also when the option container lists the same
\* button more than once.
C5_FacetPairsUnique ==
    FacetsDone =>
        \A i, j \in 1..Len(options) :
            i < j => <<options[i].code, options[i].name>> # <<options[j].code, options[j].name>>

\* C6: a facet element with a non-empty name and a non-empty code that is
\* not purely numeric is returned by get_search_options with its code
\* unchanged.
C6_NonNumericCodeKept ==
    (FacetsDone /\ doc.outcome = "ok") =>
        \A b \in NamedAndCoded(doc.page) :
            ~isdigit(b.code[1]) =>
                \E i \in 1..Len(options) :
                    options[i].name = b.name[1] /\ options[i].code = b.code[1]

\* C7 as stated: when live discovery yields no facet (the fetch failed or
\* nothing in the page matched), get_search_options returns the empty
\* sequence.
C7_EmptyWhenNothingFound == (FacetsDone /\ ~LiveFacetFound) => options = <<>>

\* C7 as amended: when live discovery yields no facet, get_search_options
\* returns a hard-coded manufacturer list instead of the empty sequence: the
\* 12 entries of lines 90-103 when the page was fetched and nothing matched,
\* the 9 entries of lines 111-121 when the fetch failed. The result is never
\* empty.
C7_DefaultsWhenNothingFound ==
    /\ FacetsDone => options # <<>>
    /\ (FacetsDone /\ ~LiveFacetFound) =>
          /\ Len(options) = (IF doc.outcome = "ok" THEN 12 ELSE 9)
          /\ options = (IF doc.outcome = "ok" THEN default_manufacturers
                        ELSE error_manufacturers)
          /\ \A i \in 1..Len(options) : isdigit(options[i].code)

\* C7 witness: a fetched page with both tabs and option buttons, none of
\* them usable as a facet, answered with the 12 defaults.
C7_Witness ==
    /\ doc.outcome = "ok"
    /\ doc.page.maker_tab # None
    /\ doc.page.option_tab # None
    /\ doc.page.option_tab[1] # <<>>
    /\ ~LiveFacetFound
    /\ options = default_manufacturers

(***************************************************************************)
(* Properties of one listing pass (SpecSearch)                             *)
(***************************************************************************)
SearchDone == call.site # "none"

\* C8: for any transport failure during the fetch (network error, timeout,
\* non-2xx status) search_products of both parsers returns an empty list
\* and raises nothing.
C8_TransportFailureGivesEmpty ==
    (SearchDone /\ reply.requested /\ call.outcome # "ok") =>
        ~reply.raised /\ reply.products = <<>>

\* C8 witness: a filtered Danawa request was sent, timed out, and the call
\* returned the empty list.
C8_Witness ==
    /\ call.site = "danawa"
    /\ call.option_filter = Some(MakerFilter(Code702))
    /\ call.outcome = "timeout"
    /\ reply.requested
    /\ ~reply.raised
    /\ reply.products = <<>>

\* C9: for every facet code c, whatever its characters, the request built
\* by search_products for the filter f"maker={c}" carries a maker parameter
\* whose value is exactly c.
C9_CodeRoundTrips ==
    \A c \in FilterCodes :
        (SearchDone /\ call.site = "danawa" /\ call.option_filter = Some(MakerFilter(c))) =>
            /\ reply.requested
            /\ MakerKey \in DOMAIN reply.params
            /\ reply.params[MakerKey] = c

(***************************************************************************)
(* Properties of the price parser (SpecPrice)                              *)
(***************************************************************************)
PriceDone == parser \in {"danawa", "streamlit", "guidecom"}

AllDigitsOf(text) == SelectSeq(text, LAMBDA c : c \in Digits)

InRun(c) == c \in Digits \cup {","}

\* The first maximal stretch of digits and commas of a text, by position
FirstRunStart(text) ==
    CHOOSE i \in 1..Len(text) : InRun(text[i]) /\ \A j \in 1..(i - 1) : ~InRun(text[j])

FirstRunEnd(text) ==
    CHOOSE e \in FirstRunStart(text)..Len(text) :
        /\ \A j \in FirstRunStart(text)..e : InRun(text[j])
        /\ (e = Len(text) \/ ~InRun(text[e + 1]))

FirstRunDigits(text) ==
    AllDigitsOf(SubSeq(text, FirstRunStart(text), FirstRunEnd(text)))

\* C10 as stated: the parser takes all digit runs of the price text,
\* concatenates them in order and returns that integer.
C10_AllRunsConcatenated ==
    (PriceDone /\ AllDigitsOf(price_str) # <<>>) =>
        parsed = Return(DecimalValue(AllDigitsOf(price_str)))

\* C10 as amended: the parser takes only the first run of digits and commas
\* of the price text, strips the commas and returns that integer whenever
\* the run holds a digit; later runs are ignored, so "1,234won (~1,200)"
\* gives 1234 and not 12341200.
C10_FirstRunOnly ==
    /\ (PriceDone /\ (\E i \in 1..Len(price_str) : InRun(price_str[i]))
                  /\ FirstRunDigits(price_str) # <<>>) =>
          parsed = Return(DecimalValue(FirstRunDigits(price_str)))
    /\ (PriceDone /\ price_str = TwoFragments) => parsed = Return(1234)

\* C10 witness: the two-fragment text was parsed to the first fragment.
C10_Witness ==
    /\ PriceDone
    /\ price_str = TwoFragments
    /\ parsed = Return(1234)
    /\ DecimalValue(AllDigitsOf(price_str)) = 12341200

\* C11: for every price text that contains no digit (the empty text, the
\* "price inquiry" placeholder, or a text made only of separators such as a
\* lone comma), each copy of the price parser returns the 'no price' value
\* and does not raise.
C11_NoDigitGivesNoPrice ==
    (PriceDone /\ AllDigitsOf(price_str) = <<>>) =>
        ~parsed.raised /\ parsed = Return(NoPriceKey)

(***************************************************************************)
(* Properties of the item parsers (SpecItem)                               *)
(***************************************************************************)
ItemDone == parsed_item.done

HasOwnBox == item_node.kind = "danawa" /\ item_node.item.specs.own_box # None

\* The <span>s of the item's specification block and their stripped texts
OwnSpans == item_node.item.specs.own_box[1]
FragmentText(i) == strip(OwnSpans[i].text)

\* The texts of the block at the given positions, in block order
TextsAt(keep) ==
    Flatten([i \in 1..Len(OwnSpans) |-> IF i \in keep THEN <<FragmentText(i)>> ELSE <<>>])

\* Positions of the fragments that are neither empty nor pure separators
Surviving ==
    {i \in 1..Len(OwnSpans) :
        ~OwnSpans[i].slash /\ FragmentText(i) # <<>> /\ FragmentText(i) \notin Separators}

\* ... that are longer than one character
LongEnough == {i \in Surviving : Len(FragmentText(i)) > 1}

\* ... among the first 15 of those
AmongFirst == {i \in LongEnough : Cardinality({j \in LongEnough : j <= i}) <= 15}

\* ... that do not repeat an earlier one, letter case ignored
NotRepeated ==
    {i \in AmongFirst :
        \A j \in AmongFirst : j < i => py_lower(FragmentText(j)) # py_lower(FragmentText(i))}

\* ... the first 10 of those
Joined == {i \in NotRepeated : Cardinality({j \in NotRepeated : j <= i}) <= 10}

\* C12 as stated: the specification string of a product is exactly the
\* sequence of its spec fragments with the empty fragments and the
\* pure-separator fragments removed, joined with " / ": every other fragment
\* (including one-character fragments and fragments repeated later in the
\* block) survives, in its original order.
C12_AllFragmentsSurvive ==
    (ItemDone /\ HasOwnBox /\ Surviving # {}) =>
        /\ parsed_item.value # None
        /\ parsed_item.value[1].specifications = py_join(SpecSeparator, TextsAt(Surviving))

\* C12 as amended: of the fragments of the item's specification block that
\* are neither empty nor pure separators, only those longer than one
\* character count; of the first 15 of them, those that do not repeat an
\* earlier fragment (letter case ignored) are kept; the specification string
\* is the first 10 kept fragments, stripped, in block order, joined with
\* " / ".
C12_LongUniqueFragmentsJoined ==
    (ItemDone /\ HasOwnBox /\ LongEnough # {}) =>
        /\ parsed_item.value # None
        /\ parsed_item.value[1].specifications = py_join(SpecSeparator, TextsAt(Joined))

\* C12 witness: the block "NVMe", "X", "nvme" gave the specification "NVMe":
\* the one-character fragment and the repeat were dropped.
C12_Witness ==
    /\ ItemDone
    /\ HasOwnBox
    /\ OwnSpans = <<Span(FALSE, NVMe), Span(FALSE, OneChar), Span(FALSE, py_lower(NVMe))>>
    /\ parsed_item.value # None
    /\ parsed_item.value[1].specifications = NVMe

\* An item node in which no name, no price text and no specification can be
\* found
NothingFound ==
    \/ /\ item_node.kind = "danawa"
       /\ item_node.item.title = None
       /\ item_node.item.link_title = None
       /\ item_node.item.generic_name = None
       /\ item_node.item.price_num = None
       /\ item_node.item.generic_price = <<>>
       /\ item_node.item.specs = SpecNodes(None, None, None, None, <<>>, <<>>)
    \/ /\ item_node.kind = "guidecom"
       /\ item_node.item.name_text = None
       /\ item_node.item.cost_text = None
       /\ item_node.item.spec_text = None

\* C16: a listing item node in which no name, no price text and no
\* specification can be found is discarded: _parse_product_item (Danawa and
\* Guidecom) never emits a product built only from placeholder values.
C16_EmptyItemDiscarded ==
    /\ (ItemDone /\ NothingFound) => parsed_item.value = None
    /\ ItemDone => parsed_item.value # Some(Product(NoInfo, PriceInquiry, NoSpecInfo))

(***************************************************************************)
(* Properties of one listing pass, continued (SpecSearch)                  *)
(***************************************************************************)
\* The Danawa call fetched its page
DanawaFetched == SearchDone /\ call.site = "danawa" /\ reply.requested /\ call.outcome = "ok"

\* The selectors that match a node of the page, and the first of them
Matching == {i \in 1..Len(Selectors) : call.page[i] # <<>>}
FirstMatching == CHOOSE i \in Matching : \A j \in Matching : i <= j

\* An item node is well-formed when a product can be built from it
WellFormed(item) == parse_product_item(item) # None

\* C13: in DanawaParser.search_products the item selectors are tried in a
\* fixed order and a later selector is used only when every earlier one
\* matched zero nodes (every product returned is built from a node of the
\* first selector that matches anything); when the primary selector matches
\* nothing and the fallback the cascade reaches matches k well-formed items
\* (k <= limit), the call returns those k products rather than an empty list.
C13_SelectorCascade ==
    DanawaFetched =>
        /\ \A p \in Range(reply.products) :
              /\ Matching # {}
              /\ \E n \in Range(call.page[FirstMatching]) : parse_product_item(n) = Some(p)
        /\ (/\ Matching # {}
            /\ FirstMatching > 1
            /\ Len(call.page[FirstMatching]) <= call.limit
            /\ \A n \in Range(call.page[FirstMatching]) : WellFormed(n))
           => /\ Len(reply.products) = Len(call.page[FirstMatching])
              /\ \A i \in 1..Len(reply.products) :
                    Some(reply.products[i]) = parse_product_item(call.page[FirstMatching][i])

\* C13 witness: the primary selector and the looser li selectors matched
\* nothing, div.goods-item matched three well-formed nodes, and the call with
\* limit 3 returned three products.
C13_Witness ==
    /\ DanawaFetched
    /\ call.limit = 3
    /\ Matching = {8}
    /\ Len(call.page[8]) = 3
    /\ \A n \in Range(call.page[8]) : WellFormed(n)
    /\ Len(reply.products) = 3
    /\ reply.products[1].name \in {NameA, NameB}

\* C14: for every limit > 0 and every page content, search_products (Danawa
\* and Guidecom) returns at most limit products and every returned product
\* has a non-empty name.
C14_AtMostLimitAllNamed ==
    (SearchDone /\ call.limit > 0) =>
        /\ Len(reply.products) <= call.limit
        /\ \A i \in 1..Len(reply.products) : reply.products[i].name # <<>>

\* C15: a call of search_products or get_search_options with an empty
\* keyword, or of search_products with a limit <= 0, is rejected before any
\* network request is issued, with an outcome distinguishable from 'search
\* ran but found nothing' (it does not return an ordinary product list).
\* Stated for the search_products calls of both parsers.
C15_MalformedInputRejected ==
    (SearchDone /\ (call.keyword = <<>> \/ call.limit <= 0)) =>
        /\ ~reply.requested
        /\ reply.raised

(***************************************************************************)
(* Properties of one search_all_categories call (SpecCategories)           *)
(***************************************************************************)
CategoriesDone == cat_pc = "done"

\* The sort orders of the running parser, in the order of the source
Orders == IF site = "danawa" THEN DanawaOrders ELSE GuidecomOrders

Failed(k) == fetches[k].outcome # "ok"

\* The names of the primary category's kept list
PrimaryKept == Names(categories[1])

\* Positions of the second pass whose product is not named in the primary
\* kept list
Outside == {i \in 1..Len(listings[2]) : listings[2][i].name \notin PrimaryKept}

Min(a, b) == IF a < b THEN a ELSE b

\* C17: in one run of search_all_categories exactly one fetch is issued per
\* sort order, sequentially (popularity first, then the second order) and
\* never retried; when the fetch of one sort order fails, that order
\* contributes an empty list and the run still completes (no exception ends
\* it) with the products of the order that succeeded.
C17_OneFetchPerOrder ==
    /\ cat_pc \in {"fetching", "done"}
    /\ cat_pc # "idle" =>
          /\ Len(fetches) <= 2
          /\ Len(fetches) = Len(listings)
          /\ \A k \in 1..Len(fetches) : fetches[k].sort = Orders[k]
          /\ \A k \in 1..Len(fetches) : Failed(k) => listings[k] = <<>>
    /\ CategoriesDone =>
          /\ Len(fetches) = 2
          /\ \A k \in 1..2 :
                /\ Failed(k) => categories[k] = <<>>
                /\ (~Failed(k) /\ Failed(3 - k)) =>
                      /\ Names(categories[k]) = Names(listings[k])
                      /\ Range(categories[k]) = Range(listings[k])

\* C17 witness: the popularity fetch timed out, the second fetch returned two
\* products, and the run ended with an empty first list and those two
\* products in the second.
C17_Witness ==
    /\ CategoriesDone
    /\ site = "danawa"
    /\ fetches = <<[sort |-> <<"saveDESC">>, outcome |-> "timeout"],
                   [sort |-> <<"opinionDESC">>, outcome |-> "ok"]>>
    /\ Len(listings[2]) = 2
    /\ categories = <<<<>>, listings[2]>>

\* C18: in DanawaParser.search_all_categories each category list has at most
\* 5 products and at least min(3, number of products its listing pass
\* returned); the primary (popularity) list keeps its first 3 products even
\* when they repeat a name, and beyond the floor it admits no product whose
\* name is already kept.
C18_FloorAndCap ==
    (CategoriesDone /\ site = "danawa") =>
        /\ \A k \in 1..2 :
              /\ Len(categories[k]) <= 5
              /\ Len(categories[k]) >= Min(3, Len(listings[k]))
        /\ \A i \in 1..Min(3, Len(listings[1])) : categories[1][i] = listings[1][i]
        /\ \A i \in 4..Len(categories[1]) :
              \A j \in 1..(i - 1) : categories[1][j].name # categories[1][i].name

\* C18 witness: the popularity pass returned the same name four times; the
\* primary list kept the first three and refused the fourth.
C18_Witness ==
    /\ CategoriesDone
    /\ site = "danawa"
    /\ Len(listings[1]) = 4
    /\ Names(listings[1]) = {NameA}
    /\ Len(categories[1]) = 3

\* C19: in DanawaParser.search_all_categories, whenever at least 3 products
\* of the secondary (review-count) pass have names outside the primary
\* category's kept set, the secondary list contains no product whose name is
\* in the primary kept set.
C19_SecondaryExcludesPrimary ==
    (CategoriesDone /\ site = "danawa" /\ Cardinality(Outside) >= 3) =>
        \A i \in 1..Len(categories[2]) : categories[2][i].name \notin PrimaryKept

\* C19 witness: the review pass returned three products outside the primary
\* kept set and one inside it, and the secondary list holds the three.
C19_Witness ==
    /\ CategoriesDone
    /\ site = "danawa"
    /\ PrimaryKept = {NameB}
    /\ Cardinality(Outside) = 3
    /\ Len(listings[2]) = 4
    /\ Len(categories[2]) = 3

\* C20: in DanawaParser.search_all_categories, when fewer than 3 products of
\* the secondary pass have names outside the primary kept set, the secondary
\* list is backfilled with primary-category items (products taken from the
\* primary category's kept list) until it reaches its floor.
C20_BackfilledFromPrimary ==
    (CategoriesDone /\ site = "danawa" /\ ~Failed(2) /\ Cardinality(Outside) < 3) =>
        /\ \A i \in 1..Len(categories[2]) :
              categories[2][i].name \in PrimaryKept => categories[2][i] \in Range(categories[1])
        /\ Len(categories[2]) >= Min(3, Cardinality(Outside) + Len(categories[1]))

(***************************************************************************)
(* Properties of the item parsers, continued (SpecItem)                    *)
(***************************************************************************)
\* The text of the title element with every line break read as one space
RECURSIVE BreaksAsSpaces(_)
BreaksAsSpaces(nodes) ==
    IF nodes = <<>> THEN <<>>
    ELSE (IF Head(nodes) = BR THEN <<" ">> ELSE Head(nodes)) \o BreaksAsSpaces(Tail(nodes))

\* ... and its words, separated by single spaces
ExpectedName(nodes) == join_split(BreaksAsSpaces(nodes))

\* C22: for a product name found through the primary name selector, each
\* embedded line-break marker becomes a space and all internal whitespace is
\* collapsed to single spaces: two text fragments separated only by a line
\* break appear in the resulting name separated by exactly one space, never
\* joined without a space.
C22_LineBreakBecomesSpace ==
    (/\ ItemDone
     /\ item_node.kind = "danawa"
     /\ item_node.item.title # None
     /\ Len(ExpectedName(item_node.item.title[1])) >= 2)
    => /\ parsed_item.value # None
       /\ parsed_item.value[1].name = ExpectedName(item_node.item.title[1])

\* The item as it would be with nothing around it: no specification block
\* outside the item node
OwnNodesOnly(item) ==
    [item EXCEPT !.specs = [item.specs EXCEPT !.parent_box = None, !.wider_box = None]]

\* C24: the specification string of a product returned by
\* DanawaParser._parse_product_item is built only from nodes inside that
\* product's own item node (what lies outside the item does not change it):
\* an item that has no spec block of its own never receives the spec
\* fragments of a sibling item of the same list.
C24_SpecsFromOwnNodeOnly ==
    (ItemDone /\ item_node.kind = "danawa") =>
        parsed_item.value = parse_product_item(OwnNodesOnly(item_node.item))

(***************************************************************************)
(* Properties of one listing pass, the window and the filter (SpecSearch)  *)
(***************************************************************************)
\* The item nodes the selectors matched, in page order
MatchedNodes == IF Matching = {} THEN <<>> ELSE call.page[FirstMatching]

\* The products of the nodes that parse to a valid product, in node order
ValidProducts(nodes) == Flatten([i \in 1..Len(nodes) |-> parse_product_item(nodes[i])])

FirstOf(seq, n) == SubSeq(seq, 1, IF n < Len(seq) THEN n ELSE Len(seq))

\* C25 as stated: for limit > 0, DanawaParser.search_products returns
\* exactly min(limit, V) products, where V is the number of matched item
\* nodes that parse to a valid product, and they are the first ones in page
\* order; a valid item is never missed because of its position in the page.
C25_EveryValidItemReached ==
    (DanawaFetched /\ call.limit > 0) =>
        reply.products = FirstOf(ValidProducts(MatchedNodes), call.limit)

\* C25 as amended: for limit > 0, DanawaParser.search_products looks at the
\* first 2 * limit matched item nodes only and returns exactly min(limit, V)
\* products, where V is the number of those nodes that parse to a valid
\* product, the first ones in page order; a valid item behind the first
\* 2 * limit nodes is not returned.
C25_ValidItemsOfTheWindow ==
    (DanawaFetched /\ call.limit > 0) =>
        reply.products =
            FirstOf(ValidProducts(FirstOf(MatchedNodes, 2 * call.limit)), call.limit)

\* C25 witness: with limit 1 the two nodes looked at were invalid and the
\* valid third node was not returned.
C25_Witness ==
    /\ DanawaFetched
    /\ call.limit = 1
    /\ Len(MatchedNodes) = 3
    /\ ~WellFormed(MatchedNodes[1])
    /\ ~WellFormed(MatchedNodes[2])
    /\ WellFormed(MatchedNodes[3])
    /\ reply.products = <<>>

\* C26: DanawaParser.search_products returns a list and raises nothing for
\* every value of option_filter, including a string with no '=' and a string
\* whose code part itself contains '='; a malformed filter never escapes as
\* an exception to search_all_categories or to the caller.
C26_FilterNeverRaises ==
    (SearchDone /\ call.site = "danawa") => ~reply.raised

(***************************************************************************)
(* Properties of the discovery cascade (SpecFacets)                        *)
(***************************************************************************)
\* The facets held by the element classed "maker"/"brand": one per button
\* with a non-empty name and a non-empty code, in page order, each
\* (code, name) pair once
RECURSIVE ClassBoxLoop(_, _)
ClassBoxLoop(buttons, seen) ==
    IF buttons = <<>> THEN <<>>
    ELSE LET b == Head(buttons)
             usable == /\ b.name # None /\ b.name[1] # <<>>
                       /\ b.code # None /\ b.code[1] # <<>>
         IN  IF usable /\ ~(<<b.code[1], b.name[1]>> \in seen)
             THEN <<Facet(b.name[1], b.code[1])>>
                     \o ClassBoxLoop(Tail(buttons), seen \cup {<<b.code[1], b.name[1]>>})
             ELSE ClassBoxLoop(Tail(buttons), seen)

ClassBoxFacets(page) ==
    IF page.class_box = None THEN <<>> ELSE ClassBoxLoop(page.class_box[1], {})

\* The known-container strategy found nothing and the class-named element
\* holds a facet
HeuristicCase ==
    /\ FacetsDone
    /\ doc.outcome = "ok"
    /\ FoundOptions(doc.page) = <<>>
    /\ ClassBoxFacets(doc.page) # <<>>

\* C23: when the known-container strategy finds nothing but the page has an
\* element whose class contains "maker" or "brand" holding facet elements
\* with name and code, get_search_options returns the facets of that element.
C23_ClassNameHeuristicUsed == HeuristicCase => options = ClassBoxFacets(doc.page)

(***************************************************************************)
(* SpecSession: the three front ends from the keyword to the result list   *)
(*   danawa.main            one run: keyword, facet menu, search, export    *)
(*   streamlit_app (Danawa) a session of button presses                    *)
(*   app.py                 a session of form submissions                  *)
(***************************************************************************)
\* Events a session can log before the front end takes no further step
MaxEvents == 4

\* What the user types as a keyword
TypedKeywords == {<<>>, <<" ">>, Keyword}

Samsung702 == Button(Some(Samsung), Some(Code702))
WD955 == Button(Some(WD), Some(Code955))

\* Facet pages the search page can answer with: no tab, one live facet, two
SessionPages ==
    {NoPage,
     FacetPage(Some(<<Some(Samsung)>>), Some(<<Samsung702>>)),
     FacetPage(Some(<<Some(Samsung), Some(WD)>>), Some(<<Samsung702, WD955>>))}

\* What one listing request is answered with
Feed(outcome, items) == [outcome |-> outcome, items |-> items]
Feeds ==
    {Feed("timeout", <<>>)}
        \cup {Feed("ok", <<DanawaItem(Some(<<n>>), None, None, Some(<<"1", "0", "0">>), <<>>)>>) :
                 n \in {NameA, NameB}}

\* What the user types at the menu of danawa.main: None for a text int()
\* rejects, else the number
Choices == {None} \cup {Some(n) : n \in {-1, 0, 1, 2, 13}}

\* The check boxes the user ticks, by position
CheckedSets == {{}, {1}, {2}, {1, 2}}

Event(kind, n) == [kind |-> kind, n |-> n]

\* One DanawaParser.search_all_categories call (danawa.py:373-414) with what
\* it logs: a listing fetch per sort order, then the merge
SearchAllOutcome(popular, review) ==
    LET first == IF popular.requested THEN <<Event("listing", 1)>> ELSE <<>>
        second == IF review.requested THEN <<Event("listing", 2)>> ELSE <<>>
    IN  IF popular.raised
        THEN [raised |-> TRUE, events |-> first, value |-> <<>>]
        ELSE IF review.raised
        THEN [raised |-> TRUE, events |-> first \o second, value |-> <<>>]
        ELSE [raised |-> FALSE,
              events |-> first \o second \o <<Event("merge", 0)>>,
              value |-> search_all_categories(popular.products, review.products)]

SearchAllRun(keyword, option_filter, popular_feed, review_feed) ==
    SearchAllOutcome(
        search_products(keyword, <<"saveDESC">>, PerOrderLimit, option_filter,
                        popular_feed.outcome, popular_feed.items),
        search_products(keyword, <<"opinionDESC">>, PerOrderLimit, option_filter,
                        review_feed.outcome, review_feed.items))

\* danawa.main 593-601: search, print, export
MainExport(keyword, found, logged, run, rows) ==
    LET failed == run.raised \/ rows.raised
    IN  /\ stage' = IF failed THEN "error" ELSE "done"
        /\ events' = logged \o run.events \o (IF failed THEN <<>> ELSE <<Event("rank", 0)>>)
        /\ session_state' =
              [session_state EXCEPT !.keyword = keyword, !.options = found,
                                    !.products = IF failed THEN <<>> ELSE rows.value]

MainResults(keyword, found, logged, run) ==
    MainExport(keyword, found, logged, run, save_to_excel_rows(run.value))

MainSearch(keyword, found, option_filter, logged, popular_feed, review_feed) ==
    MainResults(keyword, found, logged,
                SearchAllRun(keyword, option_filter, popular_feed, review_feed))

\* danawa.main 545-592: the keyword, the facet fetch and the menu; without
\* options the run goes on to the search at once (591-595)
MainKeyword ==
    /\ frontend = "main"
    /\ stage = "input"
    /\ \E typed \in TypedKeywords :
          LET keyword == strip(typed)
          IN  IF keyword = <<>>
              THEN /\ stage' = "returned"
                   /\ UNCHANGED <<session_state, events>>
              ELSE \E outcome \in FetchOutcomes :
                   \E page \in (IF outcome = "ok" THEN SessionPages ELSE {NoPage}) :
                      LET found == get_search_options(outcome, page)
                          live == IF outcome = "ok" THEN Len(FoundOptions(page)) ELSE 0
                          logged == Append(events, Event("facets", live))
                      IN  IF found # <<>>
                          THEN /\ stage' = "menu"
                               /\ events' = logged
                               /\ session_state' =
                                     [session_state EXCEPT !.keyword = keyword,
                                                           !.options = found]
                          ELSE \E popular_feed \in Feeds, review_feed \in Feeds :
                                  MainSearch(keyword, found, None, logged,
                                             popular_feed, review_feed)
    /\ UNCHANGED <<frontend, run_vars, facet_vars, search_vars, price_vars, item_vars, cat_vars>>

\* danawa.main 577-601: the choice, then search, print, export
MainChoice ==
    /\ frontend = "main"
    /\ stage = "menu"
    /\ \E choice \in Choices, popular_feed \in Feeds, review_feed \in Feeds :
          LET found == session_state.options
              option_filter ==
                  IF choice # None /\ choice[1] > 0 /\ choice[1] <= Len(found)
                  THEN Some(MakerFilter(found[choice[1]].code))
                  ELSE None
          IN  MainSearch(session_state.keyword, found, option_filter, events,
                         popular_feed, review_feed)
    /\ UNCHANGED <<frontend, run_vars, facet_vars, search_vars, price_vars, item_vars, cat_vars>>

\* [opt for opt in options if opt['category'] == '제조사'] (streamlit_app.py:79)
manufacturer_options(found) == SelectSeq(found, LAMBDA opt : opt.category = "manufacturer")

\* A variant that renders the manufacturer section on every rerun.
ManufacturerSectionAlways(st) == TRUE

\* streamlit_app.py:90: the manufacturer section, with the product search
\* and the clear button, is rendered
ManufacturerSectionShown(st) == st.show /\ st.options # <<>>

\* streamlit_app.py:96-99: the codes of the ticked check boxes, in facet order
CheckedCodes(found, checked) ==
    LET ticked == SelectSeq([i \in 1..Len(found) |-> i], LAMBDA i : i \in checked)
    IN  [k \in 1..Len(ticked) |-> found[ticked[k]].code]

\* streamlit_app.py:109-115: one search_all_categories call per filter, the
\* category lists flattened and concatenated
\* all_products.extend(...) after one call; an exception ends the loop
StreamlitExtend(run, rest) ==
    IF run.raised
    THEN [raised |-> TRUE, events |-> run.events, products |-> <<>>]
    ELSE [raised |-> rest.raised,
          events |-> run.events \o rest.events,
          products |-> Flatten(run.value) \o rest.products]

RECURSIVE StreamlitCalls(_, _, _)
StreamlitCalls(keyword, filters, feeds) ==
    IF filters = <<>>
    THEN [raised |-> FALSE, events |-> <<>>, products |-> <<>>]
    ELSE StreamlitExtend(SearchAllRun(keyword, Head(filters), feeds[1], feeds[2]),
                         StreamlitCalls(keyword, Tail(filters), SubSeq(feeds, 3, Len(feeds))))

\* streamlit_app.py:117-128: store the ranked list, or report the exception
StreamlitStore(all, ranked, selected_manufacturers) ==
    LET failed == all.raised \/ ranked.raised
    IN  /\ events' = events \o all.events \o (IF failed THEN <<>> ELSE <<Event("rank", 0)>>)
        /\ session_state' =
              [session_state EXCEPT
                  !.products = IF failed THEN @ ELSE ranked.value,
                  !.last = [form |-> "products", selected_codes |-> selected_manufacturers]]

StreamlitRank(all, selected_manufacturers) ==
    StreamlitStore(all, streamlit_merge(all.products), selected_manufacturers)

\* streamlit_app.py:107-115: no filter when no box is ticked
StreamlitFilters(selected_manufacturers) ==
    IF selected_manufacturers = <<>> THEN <<None>>
    ELSE [k \in 1..Len(selected_manufacturers) |-> Some(MakerFilter(selected_manufacturers[k]))]

StreamlitSearch(search_keyword, selected_manufacturers, filters) ==
    \E feeds \in [1..(2 * Len(filters)) -> Feeds] :
        StreamlitRank(StreamlitCalls(strip(search_keyword), filters, feeds),
                      selected_manufacturers)

\* streamlit_app.py:74-86: the "load search options" button
StreamlitLoadOptions ==
    /\ frontend = "streamlit"
    /\ Len(events) < MaxEvents
    /\ \E search_keyword \in TypedKeywords :
          IF strip(search_keyword) = <<>>
          THEN UNCHANGED <<session_state, events>>
          ELSE \E outcome \in FetchOutcomes :
               \E page \in (IF outcome = "ok" THEN SessionPages ELSE {NoPage}) :
                  LET found == get_search_options(outcome, page)
                      live == IF outcome = "ok" THEN Len(FoundOptions(page)) ELSE 0
                  IN  /\ session_state' =
                            [session_state EXCEPT !.keyword = strip(search_keyword),
                                                  !.options = manufacturer_options(found),
                                                  !.show = TRUE]
                      /\ events' = Append(events, Event("facets", live))
    /\ UNCHANGED <<frontend, stage, run_vars, facet_vars, search_vars, price_vars, item_vars, cat_vars>>

\* streamlit_app.py:90-128: the "search products" button of the manufacturer
\* section
StreamlitSearchProducts ==
    /\ frontend = "streamlit"
    /\ Len(events) < MaxEvents
    /\ ManufacturerSectionShown(session_state)
    /\ \E search_keyword \in TypedKeywords, checked \in CheckedSets :
          IF strip(search_keyword) = <<>>
          THEN UNCHANGED <<session_state, events>>
          ELSE StreamlitSearch(search_keyword,
                               CheckedCodes(session_state.options, checked),
                               StreamlitFilters(CheckedCodes(session_state.options, checked)))
    /\ UNCHANGED <<frontend, stage, run_vars, facet_vars, search_vars, price_vars, item_vars, cat_vars>>

\* streamlit_app.py:129-133: the "clear selection" button of the manufacturer
\* section
StreamlitClear ==
    /\ frontend = "streamlit"
    /\ Len(events) < MaxEvents
    /\ ManufacturerSectionShown(session_state)
    /\ session_state' = [session_state EXCEPT !.products = <<>>, !.show = FALSE]
    /\ events' = Append(events, Event("clear", 0))
    /\ UNCHANGED <<frontend, stage, run_vars, facet_vars, search_vars, price_vars, item_vars, cat_vars>>

\* The methods class DanawaParser defines (danawa.py:20-538)
DanawaParserMethods ==
    {"__init__", "get_search_options", "search_products", "_parse_product_item",
     "_get_specifications_from_item", "_get_product_specifications",
     "search_all_categories", "print_results", "save_to_excel",
     "_adjust_column_widths"}

\* Attribute lookup on the parser object
hasattr(name) == name \in DanawaParserMethods

\* app.py:47-53, 58-61: selected_options is keyed by facet name, so the box
\* of the last facet with a name decides for every facet with that name
AppSelectedCodes(found, checked) ==
    LET last_with(name) ==
            CHOOSE i \in 1..Len(found) :
                /\ found[i].name = name
                /\ \A j \in 1..Len(found) : found[j].name = name => j <= i
        ticked == SelectSeq([i \in 1..Len(found) |-> i],
                            LAMBDA i : last_with(found[i].name) \in checked)
    IN  [k \in 1..Len(ticked) |-> found[ticked[k]].code]

\* app.py:30-40: the search form
AppSearchForm ==
    /\ frontend = "app"
    /\ Len(events) < MaxEvents
    /\ \E keyword_input \in TypedKeywords :
          IF keyword_input = <<>>
          THEN /\ session_state' =
                     [session_state EXCEPT !.keyword = keyword_input, !.products = <<>>,
                                           !.error = "none",
                                           !.last = [form |-> "search",
                                                     selected_codes |-> <<>>]]
               /\ UNCHANGED events
          ELSE \E outcome \in FetchOutcomes :
               \E page \in (IF outcome = "ok" THEN SessionPages ELSE {NoPage}) :
                  LET live == IF outcome = "ok" THEN Len(FoundOptions(page)) ELSE 0
                  IN  /\ session_state' =
                            [session_state EXCEPT
                                !.keyword = keyword_input, !.products = <<>>,
                                !.options = get_search_options(outcome, page),
                                !.error = "none",
                                !.last = [form |-> "search", selected_codes |-> <<>>]]
                      /\ events' = Append(events, Event("facets", live))
    /\ UNCHANGED <<frontend, stage, run_vars, facet_vars, search_vars, price_vars, item_vars, cat_vars>>

\* app.py:43-71: the manufacturer form. The handler calls
\* parser.get_unique_products; the attribute lookup raises AttributeError
\* when the class has no such method, nothing catches it, and the assignment
\* to st.session_state.products does not take place. (The result display and
\* the reset button of lines 73-92 need a non-empty products list.)
AppManufacturerForm ==
    /\ frontend = "app"
    /\ session_state.options # <<>>
    /\ \E checked \in CheckedSets :
          LET selected_codes == AppSelectedCodes(session_state.options, checked)
              submitted == [form |-> "manufacturer", selected_codes |-> selected_codes]
          IN  IF selected_codes = <<>>
              THEN session_state' = [session_state EXCEPT !.error = "none",
                                                          !.last = submitted]
              ELSE IF ~hasattr("get_unique_products")
              THEN session_state' = [session_state EXCEPT !.error = "AttributeError",
                                                          !.last = submitted]
              ELSE \E returned \in ListsUpTo({Product(NameA, <<"1", "0", "0">> \o Won, NoSpecInfo)}, 1) :
                      session_state' = [session_state EXCEPT !.error = "none",
                                                             !.products = returned,
                                                             !.last = submitted]
    /\ UNCHANGED <<frontend, stage, events, run_vars, facet_vars, search_vars, price_vars, item_vars, cat_vars>>

InitSession ==
    /\ frontend \in {"main", "streamlit", "app"}
    /\ stage = IF frontend = "main" THEN "input" ELSE "page"
    /\ session_state = EmptySession
    /\ events = <<>>
    /\ IdleRun
    /\ IdleFacets
    /\ IdleSearch
    /\ IdlePrice
    /\ IdleItem
    /\ IdleCategories

NextSession ==
    \/ MainKeyword
    \/ MainChoice
    \/ StreamlitLoadOptions
    \/ StreamlitSearchProducts
    \/ StreamlitClear
    \/ AppSearchForm
    \/ AppManufacturerForm

SpecSession == InitSession /\ [][NextSession]_vars

(***************************************************************************)
(* Properties of the front ends (SpecSession)                              *)
(***************************************************************************)
EventKinds == [i \in 1..Len(events) |-> events[i].kind]

\* A facet fetch completed before event i, with no clear in between
FacetsBefore(i) ==
    \E j \in 1..(i - 1) :
        /\ events[j].kind = "facets"
        /\ \A k \in (j + 1)..(i - 1) : events[k].kind # "clear"

\* No listing fetch is issued before the facet fetch of its run completed
ListingsAfterFacets ==
    \A i \in 1..Len(events) : events[i].kind = "listing" => FacetsBefore(i)

\* A facet fetch that discovered no facet is followed by no listing fetch
\* until the next facet fetch
NoListingWithoutFacets ==
    \A j \in 1..Len(events) :
        (events[j].kind = "facets" /\ events[j].n = 0) =>
            \A k \in (j + 1)..Len(events) :
                events[k].kind = "listing" =>
                    \E m \in (j + 1)..(k - 1) : events[m].kind = "facets"

\* A facet fetch completed and no clear followed it
FacetsLoaded ==
    \E j \in 1..Len(events) :
        /\ events[j].kind = "facets"
        /\ \A k \in (j + 1)..Len(events) : events[k].kind # "clear"

DanawaFrontEnd == frontend \in {"main", "streamlit"}

C27_ProductSearchCompletes ==
    (/\ frontend = "app"
     /\ session_state.last.form = "manufacturer"
     /\ session_state.last.selected_codes # <<>>)
    => /\ hasattr("get_unique_products")
       /\ session_state.error = "none"
====
